---- MODULE Spec2Model ----
(***************************************************************************)
(* Command discovery and lazy loading of your_cli (src/src/your_cli/       *)
(* loader.py): the descriptor loader (load_meta, load_group_meta), the     *)
(* tree discoverer (_discover_nested_commands, discover_specs) and the     *)
(* root dispatcher (RootCommand and the lazy group wrappers).              *)
(*                                                                         *)
(* Strings whose characters the code inspects (directory names, help       *)
(* summaries) are sequences of one-character strings.  Python values read  *)
(* from a YAML descriptor are tagged records, so that truthiness and       *)
(* isinstance behave as in Python.                                         *)
(***************************************************************************)
EXTENDS Integers, Sequences, FiniteSets, TLC

VARIABLES
    commands_dir_exists, \* whether the commands root directory exists
    fs,                  \* the commands tree: directory path -> [entry, meta]
    pc,                  \* "setup" | "discovered" | "ready" | "crashed" | "exited"
    call,                \* outcome of the last direct discover_specs call
    raw,                 \* the descriptor file handed to the metadata loader
    meta_res,            \* outcome of the last load_meta / load_group_meta call
    root,                \* the RootCommand object: [status, specs]
    loaded,              \* import paths whose entry.py was executed, in order
    inv,                 \* the last invocation served: [kind, args, exit, out]
    build_excluded       \* the .build_excluded/commands tree of the packaging filter

vars == <<commands_dir_exists, fs, pc, call, raw, meta_res, root, loaded, inv,
          build_excluded>>

----------------------------------------------------------------------------
(* Characters and strings *)

\* Code point of a character (Python compares strings by code point).
ord(c) ==
    CASE c = "\n" -> 10
      [] c = " " -> 32
      [] c = "!" -> 33
      [] c = "-" -> 45
      [] c = "." -> 46
      [] c = "A" -> 65
      [] c = "C" -> 67
      [] c = "Z" -> 90
      [] c = "_" -> 95
      [] c = "a" -> 97
      [] c = "b" -> 98
      [] c = "c" -> 99
      [] c = "d" -> 100
      [] c = "g" -> 103
      [] c = "k" -> 107
      [] c = "m" -> 109
      [] c = "n" -> 110
      [] c = "o" -> 111
      [] c = "p" -> 112
      [] c = "s" -> 115
      [] c = "x" -> 120
      [] OTHER -> 122

\* The element of a one-element set: {e} is computed once, whatever the
\* number of places that use the element.
The(S) == CHOOSE x \in S : TRUE

\* s < t for Python strings.
RECURSIVE StrLess(_, _)
StrLess(s, t) ==
    IF t = <<>> THEN FALSE
    ELSE IF s = <<>> THEN TRUE
    ELSE IF ord(Head(s)) # ord(Head(t)) THEN ord(Head(s)) < ord(Head(t))
    ELSE StrLess(Tail(s), Tail(t))

\* str.startswith
startswith(s, prefix) ==
    /\ Len(s) >= Len(prefix)
    /\ SubSeq(s, 1, Len(prefix)) = prefix

\* str.strip: drop leading and trailing blanks.
RECURSIVE lstrip(_)
lstrip(s) ==
    IF s # <<>> /\ Head(s) = " " THEN lstrip(Tail(s)) ELSE s

RECURSIVE rstrip(_)
rstrip(s) ==
    IF s # <<>> /\ s[Len(s)] = " " THEN rstrip(SubSeq(s, 1, Len(s) - 1)) ELSE s

strip(s) == rstrip(lstrip(s))

\* sorted(...) of a finite set of strings.
RECURSIVE sorted(_)
sorted(S) ==
    IF S = {} THEN <<>>
    ELSE LET m == CHOOSE x \in S : \A y \in S \ {x} : StrLess(x, y)
         IN  <<m>> \o sorted(S \ {m})

_safe_name(name) ==
    [i \in DOMAIN name |-> IF name[i] = "_" THEN "-" ELSE name[i]]

----------------------------------------------------------------------------
(* Python values found in a descriptor *)

PyNone    == [t |-> "none", s |-> <<>>, n |-> 0, b |-> FALSE]
PyStr(s)  == [t |-> "str",  s |-> s,    n |-> 0, b |-> FALSE]
PyInt(n)  == [t |-> "int",  s |-> <<>>, n |-> n, b |-> FALSE]
PyBool(b) == [t |-> "bool", s |-> <<>>, n |-> 0, b |-> b]

\* bool(v)
Truthy(v) ==
    CASE v.t = "none" -> FALSE
      [] v.t = "str"  -> Len(v.s) > 0
      [] v.t = "int"  -> v.n # 0
      [] v.t = "bool" -> v.b

\* a or b
PyOr(a, b) == IF Truthy(a) THEN a ELSE b

\* dict.get(key) with the default None
get(data, key) == IF key \in DOMAIN data THEN data[key] ELSE PyNone

\* dict.setdefault(key, value), as the dict it leaves
setdefault(data, key, value) ==
    IF key \in DOMAIN data THEN data ELSE data @@ (key :> value)

\* data[key] = value
setitem(data, key, value) ==
    [k \in DOMAIN data \cup {key} |-> IF k = key THEN value ELSE data[k]]

EmptyDict == [k \in {} |-> PyNone]

----------------------------------------------------------------------------
(* Metadata loader *)

\* A descriptor file as yaml.safe_load sees it:
\*   kind "nofile"      the path is not a file (read_text raises)
\*   kind "unparsable"  the text is not YAML (safe_load raises)
\*   kind "scalar"      YAML that is not a mapping (a list, a scalar, empty)
\*   kind "map"         a mapping, held in data
NoFile        == [kind |-> "nofile",     data |-> EmptyDict]
Unparsable    == [kind |-> "unparsable", data |-> EmptyDict]
NotMapping    == [kind |-> "scalar",     data |-> EmptyDict]
Mapping(data) == [kind |-> "map",        data |-> data]

Commands == <<"C", "o", "m", "m", "a", "n", "d", "s">>

MetaOk(data)   == [status |-> "ok",    data |-> data,      err |-> "",  exc |-> ""]
MetaErr(e, x)  == [status |-> "error", data |-> EmptyDict, err |-> e,   exc |-> x]
MetaNone       == [status |-> "none",  data |-> EmptyDict, err |-> "",  exc |-> ""]

\* normalize without the override of hidden for a disabled descriptor.
normalize_keeps_hidden(data, help_summary) ==
    LET d1 == setitem(data, "HelpSummary", help_summary)
        d2 == setdefault(d1, "hidden", PyBool(FALSE))
        d3 == setdefault(d2, "enabled", PyBool(TRUE))
    IN  setdefault(d3, "HelpGroup", PyStr(Commands))

\* loader.py:56-68 (and 95-107): defaults, then a disabled descriptor is
\* forced hidden.
normalize(data, help_summary) ==
    LET d1 == setitem(data, "HelpSummary", help_summary)
        d2 == setdefault(d1, "hidden", PyBool(FALSE))
        d3 == setdefault(d2, "enabled", PyBool(TRUE))
        d4 == setdefault(d3, "HelpGroup", PyStr(Commands))
    IN  IF ~Truthy(d4["enabled"]) THEN setitem(d4, "hidden", PyBool(TRUE)) ELSE d4

\* isinstance(v, str) and v.strip() is non-empty
NonEmptyString(v) == v.t = "str" /\ Len(strip(v.s)) > 0

load_meta(file) ==
    IF file.kind \in {"nofile", "unparsable"}
    THEN MetaErr("Invalid meta.yaml", "exc")
    ELSE IF file.kind # "map"
    THEN MetaErr("Invalid meta.yaml", "expected mapping")
    ELSE LET help_summary ==
                 PyOr(get(file.data, "HelpSummary"), get(file.data, "shortHelp"))
         IN  IF ~NonEmptyString(help_summary)
             THEN MetaErr("Invalid meta.yaml", "HelpSummary must be a non-empty string")
             ELSE MetaOk(normalize(file.data, help_summary))

load_group_meta(file) ==
    IF file.kind = "nofile"
    THEN MetaNone
    ELSE IF file.kind = "unparsable"
    THEN MetaErr("Invalid meta.yaml", "exc")
    ELSE IF file.kind # "map"
    THEN MetaErr("Invalid meta.yaml", "expected mapping")
    ELSE LET help_summary ==
                 PyOr(get(file.data, "HelpSummary"), get(file.data, "shortHelp"))
         IN  IF help_summary = PyNone
             THEN MetaNone
             ELSE IF ~NonEmptyString(help_summary)
             THEN MetaErr("Invalid meta.yaml", "HelpSummary must be a non-empty string")
             ELSE MetaOk(normalize(file.data, help_summary))

----------------------------------------------------------------------------
(* Tree discoverer *)

\* The commands tree on disk.  A directory is named by its path below the
\* commands root, a sequence of directory names; fsv[path] tells whether it
\* holds entry.py (entry # "none", and then what the module exports as cli)
\* and what its meta.yaml is.
SubDirNames(fsv, base_dir) ==
    {p[Len(p)] : p \in {q \in DOMAIN fsv :
                            /\ Len(q) = Len(base_dir) + 1
                            /\ SubSeq(q, 1, Len(base_dir)) = base_dir}}

\* Ignore interpreter / tooling artefacts.
\* A variant that skips dot names only.
IsArtefact_dot_only(name) == startswith(name, <<".">>)

\* loader.py:136, 199
IsArtefact(name) == startswith(name, <<".">>) \/ startswith(name, <<"_", "_">>)

EmptySpecs == << >>

\* Optional values (x | None): <<>> is None, <<x>> is x.
None    == << >>
Some(x) == <<x>>

CommandSpec(name, entry_path, meta_path, import_path, hidden, enabled, help_group, is_group, subcommands) ==
    [name |-> name, entry_path |-> entry_path, meta_path |-> meta_path,
     import_path |-> import_path, hidden |-> hidden, enabled |-> enabled,
     help_group |-> help_group, is_group |-> is_group,
     subcommands |-> subcommands]

CommandGroupSpec(help_summary, entry_path, import_command, subcommands, hidden, enabled, help_group) ==
    [help_summary |-> help_summary, entry_path |-> entry_path,
     import_command |-> import_command, subcommands |-> subcommands,
     hidden |-> hidden, enabled |-> enabled, help_group |-> help_group]

\* spec.subcommands or {}
SubcommandsOf(spec) == IF spec.subcommands = None THEN EmptySpecs ELSE spec.subcommands[1]

\* One line of the aggregated error: the directory it is about and the text.
ErrMissing(path, missing) == [path |-> path, what |-> "missing", detail |-> missing]
ErrMeta(path, res)        == [path |-> path, what |-> res.err, detail |-> <<res.exc>>]

\* loader.py:143-148
MissingFiles(dir) ==
    (IF dir.entry = "none" THEN <<"entry.py">> ELSE << >>)
    \o (IF dir.meta.kind = "nofile" THEN <<"meta.yaml">> ELSE << >>)

RECURSIVE _discover_nested_commands(_, _, _, _, _)
RECURSIVE ScanSubDirs(_, _, _, _, _, _)
RECURSIVE VisitSubDir(_, _, _, _, _, _)

\* loader.py:135-185, the body of the loop for one sub_dir; acc holds the
\* specs built so far and the shared errors list.
VisitSubDir(fsv, name, import_path, current_depth, max_depth, acc) ==
    LET sub_dir  == Append(import_path, name)
        dir      == fsv[sub_dir]
        cmd_name == _safe_name(name)
        missing  == MissingFiles(dir)
        meta     == load_meta(dir.meta)
    IN  IF IsArtefact(name)
        THEN acc
        ELSE IF missing # << >>
        THEN [acc EXCEPT !.errors = Append(@, ErrMissing(sub_dir, missing))]
        ELSE IF meta.status = "error"
        THEN [acc EXCEPT !.errors = Append(@, ErrMeta(sub_dir, meta))]
        ELSE LET nested == _discover_nested_commands(
                               fsv, sub_dir, current_depth + 1, max_depth, acc.errors)
                 is_group == Cardinality(DOMAIN nested.specs) > 0
             IN  [specs  |-> setitem(acc.specs, cmd_name,
                                 CommandSpec(cmd_name, sub_dir, sub_dir, sub_dir,
                                             meta.data["hidden"], meta.data["enabled"],
                                             meta.data["HelpGroup"], is_group,
                                             IF is_group THEN Some(nested.specs) ELSE None)),
                  errors |-> nested.errors]

\* loader.py:134, the loop over the sorted sub-directories.
ScanSubDirs(fsv, names, import_path, current_depth, max_depth, acc) ==
    IF names = << >>
    THEN acc
    ELSE ScanSubDirs(fsv, Tail(names), import_path, current_depth, max_depth,
                     VisitSubDir(fsv, Head(names), import_path, current_depth,
                                 max_depth, acc))

\* A variant whose cap lets one more level in (> for >=).
_discover_nested_commands_gt(fsv, import_path, current_depth, max_depth, errors) ==
    IF current_depth > max_depth
    THEN [specs |-> EmptySpecs, errors |-> errors]
    ELSE ScanSubDirs(fsv, sorted(SubDirNames(fsv, import_path)), import_path,
                     current_depth, max_depth,
                     [specs |-> EmptySpecs, errors |-> errors])

\* loader.py:110-187. The directory scanned is the one at import_path below
\* the commands root (base_dir and import_path always name the same
\* directory).
_discover_nested_commands(fsv, import_path, current_depth, max_depth, errors) ==
    IF current_depth >= max_depth
    THEN [specs |-> EmptySpecs, errors |-> errors]
    ELSE ScanSubDirs(fsv, sorted(SubDirNames(fsv, import_path)), import_path,
                     current_depth, max_depth,
                     [specs |-> EmptySpecs, errors |-> errors])

\* loader.py:198-245, the body of the loop for one command_dir.
VisitCommandDir(fsv, name, max_depth, acc) ==
    LET command_dir  == <<name>>
        dir          == fsv[command_dir]
        command_name == _safe_name(name)
        loaded_meta  == load_group_meta(dir.meta)
        errors1      == IF loaded_meta.status = "error"
                        THEN Append(acc.errors, ErrMeta(command_dir, loaded_meta))
                        ELSE acc.errors
        has_meta     == loaded_meta.status = "ok"
        group_help_summary == IF has_meta
                              THEN Some(strip(loaded_meta.data["HelpSummary"].s))
                              ELSE None
        group_hidden     == IF has_meta THEN loaded_meta.data["hidden"] ELSE PyBool(FALSE)
        group_enabled    == IF has_meta THEN loaded_meta.data["enabled"] ELSE PyBool(TRUE)
        group_help_group == IF has_meta THEN loaded_meta.data["HelpGroup"] ELSE PyStr(Commands)
        group_entry_path == IF dir.entry # "none" THEN Some(command_dir) ELSE None
        sub == _discover_nested_commands(fsv, command_dir, 0, max_depth, errors1)
    IN  IF IsArtefact(name)
        THEN acc
        ELSE IF Cardinality(DOMAIN sub.specs) > 0 \/ group_entry_path # None
        THEN [specs  |-> setitem(acc.specs, command_name,
                             CommandGroupSpec(group_help_summary, group_entry_path,
                                              name, sub.specs, group_hidden,
                                              group_enabled, group_help_group)),
              errors |-> sub.errors]
        ELSE [specs |-> acc.specs, errors |-> sub.errors]

RECURSIVE ScanCommandDirs(_, _, _, _)
ScanCommandDirs(fsv, names, max_depth, acc) ==
    IF names = << >>
    THEN acc
    ELSE ScanCommandDirs(fsv, Tail(names), max_depth,
                         VisitCommandDir(fsv, Head(names), max_depth, acc))

Returned(specs) == [status |-> "return", specs |-> specs,      errors |-> << >>]
Raised(errors)  == [status |-> "raise",  specs |-> EmptySpecs, errors |-> errors]

\* A variant that serves what it could build and drops the errors.
discover_specs_partial(exists, fsv, max_depth) ==
    IF ~exists
    THEN Returned(EmptySpecs)
    ELSE Returned(ScanCommandDirs(fsv, sorted(SubDirNames(fsv, << >>)), max_depth,
                                  [specs |-> EmptySpecs, errors |-> << >>]).specs)

\* loader.py:190-250
discover_specs(exists, fsv, max_depth) ==
    IF ~exists
    THEN Returned(EmptySpecs)
    ELSE LET r == ScanCommandDirs(fsv, sorted(SubDirNames(fsv, << >>)), max_depth,
                                  [specs |-> EmptySpecs, errors |-> << >>])
         IN  IF r.errors # << >> THEN Raised(r.errors) ELSE Returned(r.specs)

----------------------------------------------------------------------------
(* Lazy loading and dispatch *)

\* A click command as the dispatcher sees it once resolved.
\*   is_group  it is a click.Group (it can resolve a further segment)
\*   specs     the lazily loaded children it was wrapped with
\*   disabled  it is the stub returned for a disabled spec
\*   help      its short_help and help text (<< >>: none)
\*   subject   what the stub of a disabled spec names in its message
ClickCommand(name, import_path, is_group, specs, hidden, disabled) ==
    [name |-> name, import_path |-> import_path, is_group |-> is_group,
     specs |-> specs, hidden |-> hidden, disabled |-> disabled,
     help |-> << >>, subject |-> << >>]

NoCommand == ClickCommand(<< >>, << >>, FALSE, EmptySpecs, FALSE, FALSE)

\* Outcome of resolving one name: "ok" with the command, "none" (the name is
\* not a key of the specs) or "error" (a RuntimeError left the loader, about
\* the file at path: what is "meta", "import" or "export").
\* loads lists the entry.py files executed on the way.
Resolved(cmd, loads)  ==
    [status |-> "ok", cmd |-> cmd, loads |-> loads, what |-> "", path |-> << >>]
Unknown ==
    [status |-> "none", cmd |-> NoCommand, loads |-> << >>, what |-> "", path |-> << >>]
LoadError(what, path, loads) ==
    [status |-> "error", cmd |-> NoCommand, loads |-> loads, what |-> what, path |-> path]

\* What exec_module and getattr(module, "cli", None) give for the entry.py
\* of a directory: "command" (a click.Command that is no group), "group"
\* (a click.Group), "bad" (no cli, or not a click command), "raises" (the
\* module fails to execute).
Export(fsv, entry_path) == fsv[entry_path].entry

IsClickGroup(export)   == export = "group"
IsClickCommand(export) == export \in {"command", "group"}

\* The object the module exports, with the name, help text and hidden flag
\* its author gave it.
Exported(fsv, entry_path, is_group, specs) ==
    LET own == fsv[entry_path].own
    IN  [ClickCommand(own.name, entry_path, is_group, specs, own.hidden, FALSE)
            EXCEPT !.help = own.help]

\* A variant of the assignments below that leaves the hidden flag of the
\* exported object as it is.
SetMetadata_keeps_hidden(cli, name, help, hidden) ==
    [cli EXCEPT !.name = name, !.help = help]

\* loader.py:301-304: cli.short_help, cli.help, cli.hidden and cli.name are
\* assigned.
SetMetadata(cli, name, help, hidden) ==
    [cli EXCEPT !.name = name, !.help = help, !.hidden = hidden]

\* A variant that executes the entry.py of a disabled spec as well.
load_click_command_no_stub(fsv, spec) ==
    LET export == Export(fsv, spec.entry_path)
    IN  Resolved(SetMetadata(Exported(fsv, spec.entry_path, IsClickGroup(export),
                                      SubcommandsOf(spec)),
                             spec.name, << >>, Truthy(spec.hidden)),
                 <<spec.import_path>>)

\* loader.py:253-305
load_click_command(fsv, spec) ==
    IF ~Truthy(spec.enabled)
    THEN Resolved([ClickCommand(spec.name, spec.import_path, spec.is_group,
                                EmptySpecs, TRUE, TRUE)
                      EXCEPT !.subject = spec.import_path], << >>)
    ELSE LET meta   == load_meta(fsv[spec.meta_path].meta)
             export == Export(fsv, spec.entry_path)
             loads  == <<spec.import_path>>
         IN  IF meta.status = "error"
             THEN LoadError("meta", spec.meta_path, << >>)
             ELSE IF export = "raises"
             THEN LoadError("import", spec.entry_path, loads)
             ELSE IF spec.is_group /\ ~IsClickGroup(export)
             THEN LoadError("export", spec.entry_path, loads)
             ELSE IF ~spec.is_group /\ ~IsClickCommand(export)
             THEN LoadError("export", spec.entry_path, loads)
             ELSE Resolved(SetMetadata(Exported(fsv, spec.entry_path,
                                                IsClickGroup(export),
                                                SubcommandsOf(spec)),
                                       spec.name, meta.data["HelpSummary"].s,
                                       Truthy(spec.hidden)),
                           loads)

\* A variant that executes the entry.py of every child of the group when
\* one of them is asked for.
Lazy_get_command_eager(fsv, specs, cmd_name) ==
    IF cmd_name \notin DOMAIN specs
    THEN Unknown
    ELSE LET names == sorted(DOMAIN specs)
         IN  [load_click_command(fsv, specs[cmd_name]) EXCEPT
                 !.loads = [i \in DOMAIN names |-> specs[names[i]].import_path]]

\* loader.py:359-363, 415-419, 471-475 (the three lazy groups share it)
Lazy_get_command(fsv, specs, cmd_name) ==
    IF cmd_name \notin DOMAIN specs
    THEN Unknown
    ELSE load_click_command(fsv, specs[cmd_name])

\* A variant that leaves the help text and the hidden flag of the exported
\* object as they are.
SetGroupMetadata_kept(group, group_spec) == group

\* loader.py:570-576: the help text is assigned when the group descriptor
\* gave one, the hidden flag always.
SetGroupMetadata(group, group_spec) ==
    [group EXCEPT !.help = IF group_spec.help_summary # None
                           THEN group_spec.help_summary[1]
                           ELSE @,
                  !.hidden = Truthy(group_spec.hidden)]

\* loader.py:543-578
RootCommand_get_command(fsv, specs, cmd_name) ==
    IF cmd_name \notin DOMAIN specs
    THEN Unknown
    ELSE LET group_spec == specs[cmd_name]
             path       == <<group_spec.import_command>>
             has_subs   == Cardinality(DOMAIN group_spec.subcommands) > 0
         IN  IF ~Truthy(group_spec.enabled)
             THEN Resolved([ClickCommand(cmd_name, path, TRUE, EmptySpecs, TRUE, TRUE)
                               EXCEPT !.subject = <<cmd_name>>], << >>)
             ELSE IF group_spec.entry_path # None
             THEN LET export == Export(fsv, group_spec.entry_path[1])
                      \* load_click_group / load_click_command_from_entry
                      \* set cli.name (loader.py:324, 345)
                      cli == [Exported(fsv, path,
                                       IF has_subs THEN TRUE ELSE IsClickGroup(export),
                                       group_spec.subcommands)
                                 EXCEPT !.name = cmd_name]
                  IN  IF export = "raises"
                      THEN LoadError("import", path, <<path>>)
                      ELSE IF has_subs /\ ~IsClickGroup(export)
                      THEN LoadError("export", path, <<path>>)
                      ELSE IF ~has_subs /\ ~IsClickCommand(export)
                      THEN LoadError("export", path, <<path>>)
                      ELSE Resolved(SetGroupMetadata(cli, group_spec), <<path>>)
             ELSE Resolved(SetGroupMetadata(
                               ClickCommand(cmd_name, path, TRUE, group_spec.subcommands,
                                            FALSE, FALSE),
                               group_spec),
                           << >>)

\* A variant that resolves a name that is no key of the specs to the first
\* command of the level.
get_command_fallback(fsv, at_root, specs, cmd_name) ==
    LET name == IF cmd_name \in DOMAIN specs \/ DOMAIN specs = {}
                THEN cmd_name
                ELSE sorted(DOMAIN specs)[1]
    IN  IF at_root
        THEN RootCommand_get_command(fsv, specs, name)
        ELSE Lazy_get_command(fsv, specs, name)

\* get_command of the node reached: the root, or a lazy group below it.
get_command(fsv, at_root, specs, cmd_name) ==
    IF at_root
    THEN RootCommand_get_command(fsv, specs, cmd_name)
    ELSE Lazy_get_command(fsv, specs, cmd_name)

\* format_commands, first loop (loader.py:375-384, 431-440, 487-496,
\* 590-599): every name of the level is resolved with get_command, in sorted
\* order, and the commands that are not hidden are kept with the HelpGroup
\* of their spec.  A RuntimeError of a child ends the listing.
\* One turn of the loop: the command resolved for cmd_name is r.
CollectRow(specs, cmd_name, r, acc) ==
    LET loads == acc.loads \o r.loads
        calls == Append(acc.calls, cmd_name)
    IN  IF r.status = "error"
        THEN [acc EXCEPT !.status = "error", !.loads = loads, !.calls = calls,
                         !.what = r.what, !.path = r.path]
        ELSE IF r.status = "none" \/ r.cmd.hidden
        THEN [acc EXCEPT !.loads = loads, !.calls = calls]
        ELSE [acc EXCEPT !.loads = loads, !.calls = calls,
                         !.rows = Append(@, [name |-> cmd_name,
                                             help |-> r.cmd.help,
                                             help_group |-> specs[cmd_name].help_group.s])]

RECURSIVE CollectRows(_, _, _, _, _)
CollectRows(fsv, at_root, specs, names, acc) ==
    IF names = << >> \/ acc.status = "error"
    THEN acc
    ELSE The({CollectRows(fsv, at_root, specs, Tail(names),
                          CollectRow(specs, Head(names), r, acc0)) :
                 r \in {get_command(fsv, at_root, specs, Head(names))},
                 acc0 \in {acc}})

\* The section titles in plain sorted() order.
sorted_groups_plain(titles) == sorted(titles)

\* sorted(groups.keys(), key=lambda g: (g != "Commands", g))
sorted_groups(titles) ==
    IF Commands \in titles
    THEN <<Commands>> \o sorted(titles \ {Commands})
    ELSE sorted(titles)

\* The rows of one HelpGroup, in the order they were collected.
RECURSIVE RowsOf(_, _)
RowsOf(rows, title) ==
    IF rows = << >>
    THEN << >>
    ELSE (IF Head(rows).help_group = title
          THEN <<[name |-> Head(rows).name, help |-> Head(rows).help]>>
          ELSE << >>)
         \o RowsOf(Tail(rows), title)

\* format_commands (loader.py:365-392, 421-448, 477-504, 580-607): the
\* sections written, each with its title and its (name, short help) rows.
format_commands(fsv, at_root, specs) ==
    The({[status |-> got.status, loads |-> got.loads, calls |-> got.calls,
          what |-> got.what, path |-> got.path,
          rows |-> [i \in DOMAIN titles |->
                       [title |-> titles[i], rows |-> RowsOf(got.rows, titles[i])]]] :
            <<got, titles>> \in
                {<<g, sorted_groups({g.rows[i].help_group : i \in DOMAIN g.rows})>> :
                    g \in {CollectRows(fsv, at_root, specs, sorted(DOMAIN specs),
                                       [status |-> "ok", loads |-> << >>,
                                        calls |-> << >>, rows |-> << >>,
                                        what |-> "", path |-> << >>])}}})

\* Outcome of one invocation of the CLI.
\*   exit, out  the exit status and the kind of output
\*   loads      the entry.py files executed, in order
\*   calls      the names get_command was called with, in order
\*   rows       the sections of the listing printed, if any
\*   cmd        the command reached at the end of the path
\*   what, path what the message is about (the file of a RuntimeError, the
\*              path named by a disabled stub)
Outcome(exit, out, acc, rows) ==
    [exit |-> exit, out |-> out, loads |-> acc.loads, calls |-> acc.calls,
     rows |-> rows, cmd |-> NoCommand, what |-> "", path |-> << >>]

\* --help (or no argument) at a group: the listing of its children.
HelpOf(fsv, at_root, cmd, exit, acc) ==
    The({LET acc2 == [loads |-> acc.loads \o listing.loads,
                      calls |-> acc.calls \o listing.calls]
         IN  IF listing.status = "error"
             THEN [Outcome(1, "RuntimeError", acc2, << >>)
                      EXCEPT !.what = listing.what, !.path = listing.path]
             ELSE [Outcome(exit, "help", acc2, listing.rows) EXCEPT !.cmd = cmd] :
            listing \in {format_commands(fsv, at_root, cmd.specs)}})

\* click's Group.invoke / Command.invoke from the command reached (cmd) with
\* the path segments still to resolve (segs).  opts.help tells whether
\* --help follows them; opts.no_args_exit is the exit status click gives to
\* a group called without arguments after printing its help (0 up to click
\* 8.1, 2 from click 8.2 on).
RECURSIVE Walk(_, _, _, _, _, _)
Walk(fsv, at_root, cmd, segs, opts, acc) ==
    IF segs = << >>
    THEN IF opts.help
         THEN \* --help is eager: the callback does not run
              HelpOf(fsv, at_root, cmd, 0, acc)
         ELSE IF cmd.is_group
         THEN \* no_args_is_help: the callback does not run
              HelpOf(fsv, at_root, cmd, opts.no_args_exit, acc)
         ELSE IF cmd.disabled
         THEN [Outcome(1, "is disabled", acc, << >>)
                  EXCEPT !.cmd = cmd, !.path = cmd.subject]
         ELSE [Outcome(0, "ran", acc, << >>) EXCEPT !.cmd = cmd]
    ELSE IF ~cmd.is_group
    THEN \* a leaf command takes no further path segment
         [Outcome(2, "usage error", acc, << >>) EXCEPT !.cmd = cmd]
    ELSE The({IF r.status = "none"
              THEN [Outcome(2, "No such command", acc2, << >>) EXCEPT !.cmd = cmd]
              ELSE IF r.status = "error"
              THEN [Outcome(1, "RuntimeError", acc2, << >>)
                       EXCEPT !.what = r.what, !.path = r.path]
              ELSE Walk(fsv, FALSE, r.cmd, Tail(segs), opts, acc2) :
                 <<r, acc2>> \in
                     {<<g, [loads |-> acc.loads \o g.loads,
                            calls |-> Append(acc.calls, Head(segs))]>> :
                         g \in {get_command(fsv, at_root, cmd.specs, Head(segs))}}})

\* A variant in which --version is looked at only once the path has been
\* resolved.
Invoke_version_late(fsv, specs, cmdline, no_args_exit) ==
    LET o == Walk(fsv, TRUE, ClickCommand(<< >>, << >>, TRUE, specs, FALSE, FALSE),
                  cmdline.path, [help |-> cmdline.help, no_args_exit |-> no_args_exit],
                  [loads |-> << >>, calls |-> << >>])
    IN  IF cmdline.version
        THEN Outcome(0, "version", [loads |-> o.loads, calls |-> o.calls], << >>)
        ELSE o

\* cli(args) on a RootCommand holding specs: --version before the first
\* segment is eager and ends the run (loader.py:531-538).
Invoke(fsv, specs, cmdline, no_args_exit) ==
    IF cmdline.version
    THEN Outcome(0, "version", [loads |-> << >>, calls |-> << >>], << >>)
    ELSE Walk(fsv, TRUE, ClickCommand(<< >>, << >>, TRUE, specs, FALSE, FALSE),
              cmdline.path, [help |-> cmdline.help, no_args_exit |-> no_args_exit],
              [loads |-> << >>, calls |-> << >>])

----------------------------------------------------------------------------
(* Scaffolding utility: commands/admin/new_command/entry.py *)

\* The characters of the class [A-Za-z0-9_-].
NameChars ==
    {"a", "b", "c", "d", "e", "f", "g", "h", "i", "j", "k", "l", "m",
     "n", "o", "p", "q", "r", "s", "t", "u", "v", "w", "x", "y", "z",
     "A", "B", "C", "D", "E", "F", "G", "H", "I", "J", "K", "L", "M",
     "N", "O", "P", "Q", "R", "S", "T", "U", "V", "W", "X", "Y", "Z",
     "0", "1", "2", "3", "4", "5", "6", "7", "8", "9", "_", "-"}

\* entry.py:11: re.compile(r"^[A-Za-z0-9_-]+$").match(name); in Python '$'
\* also matches just before a newline that ends the string.
VALID_NAME(name) ==
    LET body == IF Len(name) > 1 /\ name[Len(name)] = "\n"
                THEN SubSeq(name, 1, Len(name) - 1)
                ELSE name
    IN  Len(body) >= 1 /\ \A i \in DOMAIN body : body[i] \in NameChars

\* f"TODO: describe {command}." and f"TODO: describe {command} {subcommand}."
TodoDescribe(words) ==
    <<"T", "O", "D", "O", ":", " ", "d", "e", "s", "c", "r", "i", "b", "e", " ">>
    \o words \o <<".">>

\* A plain YAML scalar may not hold ": " (nor end with ':'): safe_load
\* raises "mapping values are not allowed here".
IsPlainScalar(text) ==
    /\ text # << >>
    /\ text[Len(text)] # ":"
    /\ \A i \in 1..(Len(text) - 1) : ~(text[i] = ":" /\ text[i + 1] = " ")

\* The skeleton descriptor "HelpSummary: {help}\nhidden: false\nenabled:
\* true\nHelpGroup: Commands\npackaged: true\n" as yaml.safe_load sees it.
SkeletonMeta(help_text) ==
    IF IsPlainScalar(help_text)
    THEN Mapping(("HelpSummary" :> PyStr(help_text))
                 @@ ("hidden" :> PyBool(FALSE)) @@ ("enabled" :> PyBool(TRUE))
                 @@ ("HelpGroup" :> PyStr(Commands)) @@ ("packaged" :> PyBool(TRUE)))
    ELSE Unparsable

\* The skeleton entry.py: a click command named after its function cli,
\* without docstring.
SkeletonOwn == [name |-> <<"c", "l", "i">>, help |-> << >>, hidden |-> FALSE]

\* A request as click parses it.  escapes tells whether the target
\* directory resolves (through a symbolic link) outside the commands root.
Request(command, subcommand, command_short_help, subcommand_short_help, short_help, force, escapes) ==
    [command |-> command, subcommand |-> subcommand,
     command_short_help |-> command_short_help,
     subcommand_short_help |-> subcommand_short_help,
     short_help |-> short_help, force |-> force, escapes |-> escapes]

\* A variant of _abort that ends with the status of a failed command.
Aborted_status_1(fsv, exists, message) ==
    [exit |-> 1, out |-> message, fs |-> fsv, commands_dir_exists |-> exists]

\* _abort: a message on stderr and SystemExit(2); nothing was written.
Aborted(fsv, exists, message) ==
    [exit |-> 2, out |-> message, fs |-> fsv, commands_dir_exists |-> exists]

Created(fsv) ==
    [exit |-> 0, out |-> "created", fs |-> fsv, commands_dir_exists |-> TRUE]

\* path.exists() of a file of a directory.
EntryExists(fsv, d) == d \in DOMAIN fsv /\ fsv[d].entry # "none"
MetaExists(fsv, d)  == d \in DOMAIN fsv /\ fsv[d].meta.kind # "nofile"

\* Directory.mkdir(parents=True, exist_ok=True)
mkdir(fsv, d) ==
    [q \in DOMAIN fsv \cup {SubSeq(d, 1, k) : k \in 1..Len(d)} |->
        IF q \in DOMAIN fsv
        THEN fsv[q]
        ELSE [entry |-> "none", meta |-> NoFile, own |-> SkeletonOwn]]

\* (d / "meta.yaml").write_text(...) and (d / "entry.py").write_text(...)
write_meta(fsv, d, meta) == [fsv EXCEPT ![d].meta = meta]
write_entry(fsv, d) == [fsv EXCEPT ![d].entry = "command", ![d].own = SkeletonOwn]

\* entry.py:31-128: cli(command, subcommand, force, **kwargs)
new_command(fsv, exists, req) ==
    LET subcommand_short_help ==
            IF req.short_help # None /\ req.subcommand_short_help = None
            THEN req.short_help
            ELSE req.subcommand_short_help
        command_dir == <<req.command>>
    IN  IF ~VALID_NAME(req.command)
        THEN Aborted(fsv, exists, "Invalid command")
        ELSE IF req.subcommand = None
        THEN IF req.command_short_help = None
             THEN Aborted(fsv, exists, "--command-short-help is required")
             ELSE IF req.escapes
             THEN Aborted(fsv, exists, "Target path must be within commands directory")
             ELSE IF ~req.force /\ (EntryExists(fsv, command_dir) \/ MetaExists(fsv, command_dir))
             THEN Aborted(fsv, exists, "already exists")
             ELSE Created(write_entry(
                      write_meta(mkdir(fsv, command_dir), command_dir,
                                 SkeletonMeta(req.command_short_help[1])),
                      command_dir))
        ELSE IF ~VALID_NAME(req.subcommand[1])
        THEN Aborted(fsv, exists, "Invalid subcommand")
        ELSE LET target_dir == <<req.command, req.subcommand[1]>>
                 group_help_text ==
                     IF req.command_short_help # None
                     THEN req.command_short_help[1]
                     ELSE TodoDescribe(req.command)
                 sub_help_text ==
                     IF subcommand_short_help # None
                     THEN subcommand_short_help[1]
                     ELSE TodoDescribe(req.command \o <<" ">> \o req.subcommand[1])
             IN  IF req.escapes
                 THEN Aborted(fsv, exists, "Target path must be within commands directory")
                 ELSE IF ~req.force /\ (\/ EntryExists(fsv, target_dir)
                                        \/ MetaExists(fsv, target_dir)
                                        \/ MetaExists(fsv, command_dir))
                 THEN Aborted(fsv, exists, "already exists")
                 ELSE Created(write_entry(
                          write_meta(
                              write_meta(mkdir(fsv, target_dir), command_dir,
                                         SkeletonMeta(group_help_text)),
                              target_dir, SkeletonMeta(sub_help_text)),
                          target_dir))

----------------------------------------------------------------------------
(* Packaging filter: scripts/filter_commands.py *)

\* filter_commands.py:20-28, load_meta of the filter: the descriptor as a
\* dict, {} when the file cannot be read as a mapping.
filter_load_meta(file) == IF file.kind = "map" THEN file.data ELSE EmptyDict

\* filter_commands.py:31-37: meta.get("packaged", False) is True
should_package(file) == get(filter_load_meta(file), "packaged") = PyBool(TRUE)

\* The directories at and below p.
TreeAt(fsv, p) ==
    {q \in DOMAIN fsv : Len(q) >= Len(p) /\ SubSeq(q, 1, Len(p)) = p}

RECURSIVE scan_subcommands(_, _, _, _)
RECURSIVE ScanSubcommandDirs(_, _, _, _, _, _)

\* filter_commands.py:74-91, the loop over the sorted sub-directories.
ScanSubcommandDirs(fsv, names, parent_dir, max_depth, current_depth, excluded) ==
    IF names = << >>
    THEN excluded
    ELSE LET sub_dir == Append(parent_dir, Head(names))
             both == /\ fsv[sub_dir].entry # "none"
                     /\ fsv[sub_dir].meta.kind # "nofile"
         IN  ScanSubcommandDirs(fsv, Tail(names), parent_dir, max_depth, current_depth,
                 IF IsArtefact(Head(names))
                 THEN excluded
                 ELSE IF both /\ ~should_package(fsv[sub_dir].meta)
                 THEN Append(excluded, sub_dir)
                 ELSE IF both
                 THEN excluded \o scan_subcommands(fsv, sub_dir, max_depth,
                                                   current_depth + 1)
                 ELSE excluded)

\* filter_commands.py:67-93
scan_subcommands(fsv, parent_dir, max_depth, current_depth) ==
    IF current_depth >= max_depth
    THEN << >>
    ELSE ScanSubcommandDirs(fsv, sorted(SubDirNames(fsv, parent_dir)), parent_dir,
                            max_depth, current_depth, << >>)

\* filter_commands.py:48-62, the loop over the sorted command directories.
RECURSIVE ScanPackagedDirs(_, _, _)
ScanPackagedDirs(fsv, names, excluded) ==
    IF names = << >>
    THEN excluded
    ELSE LET command_dir == <<Head(names)>>
         IN  ScanPackagedDirs(fsv, Tail(names),
                 IF IsArtefact(Head(names))
                 THEN excluded
                 ELSE IF /\ fsv[command_dir].meta.kind # "nofile"
                         /\ ~should_package(fsv[command_dir].meta)
                 THEN Append(excluded, command_dir)
                 ELSE excluded \o scan_subcommands(fsv, command_dir, 5, 0))

\* filter_commands.py:40-64
find_commands_to_exclude(exists, fsv) ==
    IF ~exists
    THEN << >>
    ELSE ScanPackagedDirs(fsv, sorted(SubDirNames(fsv, << >>)), << >>)

\* shutil.move(src / p, dst / p) for a destination that does not exist: the
\* directory p and what is below it leave src and appear in dst.
shutil_move(src, dst, p) ==
    [src |-> [q \in DOMAIN src \ TreeAt(src, p) |-> src[q]],
     dst |-> [q \in DOMAIN dst \cup TreeAt(src, p) |->
                 IF q \in TreeAt(src, p) THEN src[q] ELSE dst[q]]]

\* shutil.rmtree(tree / p)
rmtree(tree, p) == [q \in DOMAIN tree \ TreeAt(tree, p) |-> tree[q]]

\* filter_commands.py:108-114, the loop: backup_path.parent is created, then
\* the excluded directory is moved. trees is [src: commands, dst: backup].
RECURSIVE MoveEach(_, _)
MoveEach(trees, excluded) ==
    IF excluded = << >>
    THEN trees
    ELSE LET excluded_path == Head(excluded)
             parent == SubSeq(excluded_path, 1, Len(excluded_path) - 1)
         IN  MoveEach(shutil_move(trees.src, mkdir(trees.dst, parent), excluded_path),
                      Tail(excluded))

\* filter_commands.py:103-114
move_excluded_commands(fsv, excluded, backup) ==
    MoveEach([src |-> fsv, dst |-> backup], excluded)

\* filter_commands.py:125-136, the loop over the top-level directories of the
\* backup: an existing target is removed first, then the backup directory is
\* moved back. trees is [src: backup, dst: commands]. The directories have
\* different names, so the order of iterdir() does not matter.
RECURSIVE RestoreEach(_, _)
RestoreEach(trees, names) ==
    IF names = << >>
    THEN trees
    ELSE LET target_path == <<Head(names)>>
         IN  RestoreEach(shutil_move(trees.src,
                                     IF target_path \in DOMAIN trees.dst
                                     THEN rmtree(trees.dst, target_path)
                                     ELSE trees.dst,
                                     target_path),
                         Tail(names))

\* filter_commands.py:117-140; the backup directory is removed at the end.
restore_excluded_commands(fsv, backup) ==
    [fs |-> RestoreEach([src |-> backup, dst |-> fsv],
                        sorted(SubDirNames(backup, << >>))).dst,
     build_excluded |-> << >>]

----------------------------------------------------------------------------
(* Bounds and inputs *)

MaxDirs    == 3    \* directories below the commands root (tree-discovery runs)
MaxPlugins == 4    \* directories below the commands root (dispatch runs)
MaxEntries == 3    \* directories below the commands root (help-listing runs)
MaxTreeDirs == 2   \* directories below the commands root (scaffolding runs)
MaxPackaged == 3   \* directories below the commands root (packaging runs)
MaxSessionDirs == 2 \* directories below the commands root (repeated runs)
MaxArgs    == 2    \* path segments typed on a command line
MaxDepthArg == 2   \* largest max_depth handed to discover_specs directly

DefaultMaxDepth == 5

\* Directory names: two that differ only by '_' versus '-', a third plain
\* name, a dunder name, a dot name (tree-discovery runs); two plain names
\* (dispatch runs).
DirNames    == {<<"a", "-", "b">>, <<"a", "_", "b">>, <<"b">>,
                <<"_", "_", "p">>, <<".", "g">>}
PluginNames == {<<"a">>, <<"b">>}

ValidMeta    == Mapping("HelpSummary" :> PyStr(<<"o", "k">>))
DisabledMeta == Mapping(("HelpSummary" :> PyStr(<<"o", "k">>))
                        @@ ("enabled" :> PyBool(FALSE)) @@ ("hidden" :> PyBool(FALSE)))
\* A group descriptor that states enabled: false and nothing else.
DisabledBareMeta == Mapping("enabled" :> PyBool(FALSE))
HiddenMeta   == Mapping(("HelpSummary" :> PyStr(<<"o", "k">>))
                        @@ ("hidden" :> PyBool(TRUE)))

\* What the author of an entry.py gave its cli object: the function name as
\* command name, the docstring as help text, and maybe hidden=True.
OwnAttrs(hidden) ==
    [name |-> <<"c", "l", "i">>, help |-> <<"d", "o", "c">>, hidden |-> hidden]

DirOwn(entry, meta, own) == [entry |-> entry, meta |-> meta, own |-> own]

Dir(entry, meta) == DirOwn(entry, meta, OwnAttrs(FALSE))

\* Any directory content, well-formed or not.
AnyDirs == {Dir(e, m) : e \in {"none", "command"},
                        m \in {NoFile, NotMapping, ValidMeta}}

\* What is found in a tooling directory (__pycache__, .git): nothing the
\* loader knows, or files that look like a unit's.
ArtefactDirs == {Dir("none", NoFile), Dir("command", ValidMeta)}

\* What a plugin writer puts in a group directory and in a unit directory.
GroupDirs == {Dir(e, m) : e \in {"none", "command", "group"},
                          m \in {NoFile, DisabledMeta}}
             \cup {Dir("group", DisabledBareMeta)}
UnitDirs  == {Dir(e, m) : e \in {"command", "group"},
                          m \in {ValidMeta, DisabledMeta}}

\* Descriptors that file the entry under a help section of its own.
TaggedMeta(tag) ==
    Mapping(("HelpSummary" :> PyStr(<<"o", "k">>)) @@ ("HelpGroup" :> PyStr(tag)))

\* Help-listing runs: three names; top-level directories with or without a
\* descriptor and an entry, units with a descriptor and an entry; hidden and
\* tagged descriptors, entries that set hidden=True themselves, and entries
\* whose module exports no click command ("bad").
EntryNames == {<<"a">>, <<"b">>, <<"c">>}
ListedGroupDirs ==
    {Dir("none", NoFile), DirOwn("group", NoFile, OwnAttrs(TRUE)),
     Dir("command", ValidMeta), Dir("group", HiddenMeta),
     DirOwn("group", TaggedMeta(<<"A">>), OwnAttrs(TRUE)),
     Dir("group", TaggedMeta(<<"Z">>)), Dir("bad", ValidMeta)}
ListedUnitDirs ==
    {Dir("command", ValidMeta), Dir("command", HiddenMeta),
     DirOwn("command", TaggedMeta(<<"A">>), OwnAttrs(TRUE)),
     Dir("command", TaggedMeta(<<"Z">>)), Dir("group", ValidMeta),
     Dir("bad", ValidMeta)}

\* Scaffolding runs: the tree holds directories a and b with or without an
\* entry.py and a meta.yaml; the names asked for are a plain one, one with
\* a character outside the class, one that ends with a newline and a dunder
\* name.
TreeNames == {<<"a">>, <<"b">>}
TreeDirs ==
    {Dir("none", NoFile), Dir("none", ValidMeta), Dir("command", NoFile),
     DirOwn("command", HiddenMeta, OwnAttrs(TRUE))}
\* What the packaging filter finds in a directory.
PackagedMeta == Mapping(("HelpSummary" :> PyStr(<<"o", "k">>))
                        @@ ("packaged" :> PyBool(TRUE)))
PackagedDirs ==
    {Dir("none", NoFile), Dir("command", PackagedMeta), Dir("command", ValidMeta),
     Dir("group", PackagedMeta)}
AskedNames == {<<"a">>, <<"b", "!">>, <<"a", "\n">>, <<"_", "_", "p">>}
HelpTexts == {None, Some(<<"o", "k">>)}
Requests ==
    {Request(c, sc, ch, sh, lh, f, x) :
        c \in AskedNames, sc \in {None} \cup {Some(n) : n \in AskedNames},
        ch \in HelpTexts, sh \in HelpTexts, lh \in HelpTexts,
        f \in BOOLEAN, x \in BOOLEAN}

Paths(names, maxlen) ==
    UNION {[1..n -> names] : n \in 0..maxlen}

CmdLine(version, path, help) == [version |-> version, path |-> path, help |-> help]

TypedNames == {_safe_name(n) : n \in PluginNames}

NoCall   == [status |-> "none", specs |-> EmptySpecs, errors |-> << >>, max_depth |-> 0]
NoRoot   == [status |-> "none", specs |-> EmptySpecs, errors |-> << >>]
NoInv    == [kind |-> "none", cmdline |-> CmdLine(FALSE, << >>, FALSE),
             exit |-> 0, out |-> "", rows |-> << >>, calls |-> << >>,
             cmd |-> NoCommand, what |-> "", path |-> << >>]

\* The exit status of a group called without arguments, by click version.
NoArgsExits == {0, 2}
NoMeta   == [fn |-> "none", res |-> MetaNone]

----------------------------------------------------------------------------
(* State machine *)

Init ==
    /\ commands_dir_exists = FALSE
    /\ fs = << >>
    /\ pc = "setup"
    /\ call = NoCall
    /\ raw = NoFile
    /\ meta_res = NoMeta
    /\ root = NoRoot
    /\ loaded = << >>
    /\ inv = NoInv
    /\ build_excluded = << >>

\* tests/test_coverage.py:151-191: a directory is created below the
\* commands root (mkdir(parents=True)), with or without its two files.
MkDir ==
    /\ pc = "setup"
    /\ Cardinality(DOMAIN fs) < MaxDirs
    /\ \E parent \in {<< >>} \cup DOMAIN fs, name \in DirNames :
          /\ Append(parent, name) \notin DOMAIN fs
          /\ \E dir \in (IF IsArtefact(name) THEN ArtefactDirs ELSE AnyDirs) :
                fs' = setitem(fs, Append(parent, name), dir)
    /\ commands_dir_exists' = TRUE
    /\ UNCHANGED <<pc, call, raw, meta_res, root, loaded, inv, build_excluded>>

\* tests/test_cli.py:9-42: a plugin directory with both files, below a
\* group directory that may hold a descriptor and an entry file of its own.
WritePlugin ==
    /\ pc = "setup"
    /\ Cardinality(DOMAIN fs) < MaxPlugins
    /\ \E parent \in {<< >>} \cup DOMAIN fs, name \in PluginNames :
          /\ Append(parent, name) \notin DOMAIN fs
          /\ \E dir \in (IF parent = << >> THEN GroupDirs ELSE UnitDirs) :
                fs' = setitem(fs, Append(parent, name), dir)
    /\ commands_dir_exists' = TRUE
    /\ UNCHANGED <<pc, call, raw, meta_res, root, loaded, inv, build_excluded>>

\* A direct call discover_specs(commands_dir, max_depth).
DiscoverSpecs ==
    /\ pc = "setup"
    /\ \E max_depth \in 0..MaxDepthArg :
          call' = [discover_specs(commands_dir_exists, fs, max_depth)
                     EXCEPT !.status = @] @@ [max_depth |-> max_depth]
    /\ pc' = "discovered"
    /\ UNCHANGED <<commands_dir_exists, fs, raw, meta_res, root, loaded, inv, build_excluded>>

\* loader.py:508-524 as main() runs it: a RuntimeError of discover_specs
\* leaves no RootCommand and ends the process.
RootCommandInit ==
    /\ pc = "setup"
    /\ LET r == discover_specs(commands_dir_exists, fs, DefaultMaxDepth)
       IN  IF r.status = "raise"
           THEN /\ root' = [status |-> "failed", specs |-> EmptySpecs,
                            errors |-> r.errors]
                /\ pc' = "crashed"
           ELSE /\ root' = [status |-> "ready", specs |-> r.specs,
                            errors |-> << >>]
                /\ pc' = "ready"
    /\ UNCHANGED <<commands_dir_exists, fs, call, raw, meta_res, loaded, inv, build_excluded>>

\* main.py:39-40: cli(prog_name=...) serves one command line and exits.
Serve(kind, cmdline) ==
    /\ pc = "ready"
    /\ \E no_args_exit \in NoArgsExits :
          \E o \in {Invoke(fs, root.specs, cmdline, no_args_exit)} :
              /\ inv' = [kind |-> kind, cmdline |-> cmdline, exit |-> o.exit,
                         out |-> o.out, rows |-> o.rows, calls |-> o.calls,
                         cmd |-> o.cmd, what |-> o.what, path |-> o.path]
              /\ loaded' = o.loads
    /\ pc' = "exited"
    /\ UNCHANGED <<commands_dir_exists, fs, call, raw, meta_res, root, build_excluded>>

Dispatch ==
    \E path \in Paths(TypedNames, MaxArgs) \ {<< >>} :
        Serve("dispatch", CmdLine(FALSE, path, FALSE))

Help ==
    \E path \in Paths(TypedNames, MaxArgs) :
        Serve("help", CmdLine(FALSE, path, TRUE))

Version ==
    \E path \in Paths(TypedNames, MaxArgs) :
        Serve("version", CmdLine(TRUE, path, FALSE))

Next ==
    \/ WritePlugin
    \/ RootCommandInit
    \/ Dispatch
    \/ Help
    \/ Version

Spec == Init /\ [][Next]_vars

\* tests/test_cli.py:75-91, 113-129 and tests/test_coverage.py:215-235:
\* plugin trees of depth two with hidden and tagged descriptors and with
\* entry files of either capability.
WriteEntry ==
    /\ pc = "setup"
    /\ Cardinality(DOMAIN fs) < MaxEntries
    /\ \E parent \in {<< >>} \cup {p \in DOMAIN fs : Len(p) = 1}, name \in EntryNames :
          /\ Append(parent, name) \notin DOMAIN fs
          /\ \E dir \in (IF parent = << >> THEN ListedGroupDirs ELSE ListedUnitDirs) :
                fs' = setitem(fs, Append(parent, name), dir)
    /\ commands_dir_exists' = TRUE
    /\ UNCHANGED <<pc, call, raw, meta_res, root, loaded, inv, build_excluded>>

DispatchEntry ==
    \E path \in Paths(EntryNames, MaxArgs) \ {<< >>} :
        Serve("dispatch", CmdLine(FALSE, path, FALSE))

HelpEntry ==
    \E path \in Paths(EntryNames, MaxArgs) :
        Serve("help", CmdLine(FALSE, path, TRUE))

NextHelp ==
    \/ WriteEntry
    \/ RootCommandInit
    \/ DispatchEntry
    \/ HelpEntry

SpecHelp == Init /\ [][NextHelp]_vars

\* The commands tree of a process that serves more than one command line.
WriteSession ==
    /\ pc = "setup"
    /\ Cardinality(DOMAIN fs) < MaxSessionDirs
    /\ \E parent \in {<< >>} \cup DOMAIN fs, name \in PluginNames :
          /\ Append(parent, name) \notin DOMAIN fs
          /\ \E dir \in (IF parent = << >> THEN GroupDirs ELSE UnitDirs) :
                fs' = setitem(fs, Append(parent, name), dir)
    /\ commands_dir_exists' = TRUE
    /\ UNCHANGED <<pc, call, raw, meta_res, root, loaded, inv, build_excluded>>

\* tests/test_coverage.py:44-55: runner.invoke(root, args) on one RootCommand
\* object, a first and a second time in the same process; loaded keeps
\* every execution of an entry.py by the process, and earlier the command
\* line served before.
RunnerInvoke(kind, cmdline) ==
    /\ pc \in {"ready", "served"}
    /\ \E no_args_exit \in NoArgsExits :
          \E o \in {Invoke(fs, root.specs, cmdline, no_args_exit)} :
              /\ inv' = [kind |-> kind, cmdline |-> cmdline, exit |-> o.exit,
                         out |-> o.out, rows |-> o.rows, calls |-> o.calls,
                         cmd |-> o.cmd, what |-> o.what, path |-> o.path,
                         loads |-> o.loads,
                         earlier |-> IF pc = "ready" THEN None ELSE Some(inv)]
              /\ loaded' = loaded \o o.loads
    /\ pc' = IF pc = "ready" THEN "served" ELSE "exited"
    /\ UNCHANGED <<commands_dir_exists, fs, call, raw, meta_res, root, build_excluded>>

RunnerDispatch ==
    \E path \in Paths(TypedNames, MaxArgs) \ {<< >>} :
        RunnerInvoke("dispatch", CmdLine(FALSE, path, FALSE))

RunnerHelp ==
    \E path \in Paths(TypedNames, MaxArgs) :
        RunnerInvoke("help", CmdLine(FALSE, path, TRUE))

NextSession ==
    \/ WriteSession
    \/ RootCommandInit
    \/ RunnerDispatch
    \/ RunnerHelp

SpecSession == Init /\ [][NextSession]_vars

\* tests/test_coverage.py:77-98: the tree a scaffolding run starts from.
WriteTree ==
    /\ pc = "setup"
    /\ Cardinality(DOMAIN fs) < MaxTreeDirs
    /\ \E parent \in {<< >>} \cup {p \in DOMAIN fs : Len(p) = 1}, name \in TreeNames :
          /\ Append(parent, name) \notin DOMAIN fs
          /\ \E dir \in TreeDirs : fs' = setitem(fs, Append(parent, name), dir)
    /\ commands_dir_exists' = TRUE
    /\ UNCHANGED <<pc, call, raw, meta_res, root, loaded, inv, build_excluded>>

\* `admin new-command COMMAND [SUBCOMMAND] [options]` is run once.
Scaffold ==
    /\ pc = "setup"
    /\ \E req \in Requests :
          \E r \in {new_command(fs, commands_dir_exists, req)} :
              /\ inv' = [kind |-> "scaffold", req |-> req, exit |-> r.exit,
                         out |-> r.out, before |-> fs,
                         before_exists |-> commands_dir_exists]
              /\ fs' = r.fs
              /\ commands_dir_exists' = r.commands_dir_exists
    /\ pc' = "scaffolded"
    /\ UNCHANGED <<call, raw, meta_res, root, loaded, build_excluded>>

\* A commands tree as the build finds it: groups without files, units and
\* groups whose descriptor states packaged: true, units whose descriptor
\* leaves the key out.
WritePackage ==
    /\ pc = "setup"
    /\ Cardinality(DOMAIN fs) < MaxPackaged
    /\ \E parent \in {<< >>} \cup DOMAIN fs, name \in PluginNames :
          /\ Append(parent, name) \notin DOMAIN fs
          /\ \E dir \in PackagedDirs : fs' = setitem(fs, Append(parent, name), dir)
    /\ commands_dir_exists' = TRUE
    /\ UNCHANGED <<pc, call, raw, meta_res, root, loaded, inv, build_excluded>>

\* filter_commands.py:157-167, main() with the action prepare, run on a
\* checkout without .build_excluded: nothing is created when nothing is to
\* be excluded.
Prepare ==
    /\ pc = "setup"
    /\ \E excluded \in {find_commands_to_exclude(commands_dir_exists, fs)} :
          \E moved \in {IF excluded = << >>
                        THEN [src |-> fs, dst |-> build_excluded]
                        ELSE move_excluded_commands(fs, excluded, build_excluded)} :
              /\ fs' = moved.src
              /\ build_excluded' = moved.dst
              /\ inv' = [kind |-> "prepare", exit |-> 0, out |-> "prepared",
                         excluded |-> excluded, before |-> fs]
    /\ pc' = "prepared"
    /\ UNCHANGED <<commands_dir_exists, call, raw, meta_res, root, loaded>>

\* filter_commands.py:169-173, main() with the action restore.
Restore ==
    /\ pc = "prepared"
    /\ \E restored \in {restore_excluded_commands(fs, build_excluded)} :
          /\ fs' = restored.fs
          /\ build_excluded' = restored.build_excluded
    /\ inv' = [inv EXCEPT !.kind = "restore", !.out = "restored"]
    /\ pc' = "restored"
    /\ UNCHANGED <<commands_dir_exists, call, raw, meta_res, root, loaded>>

NextFilter ==
    \/ WritePackage
    \/ Prepare
    \/ Restore

SpecFilter == Init /\ [][NextFilter]_vars

NextScaffold ==
    \/ WriteTree
    \/ Scaffold

SpecScaffold == Init /\ [][NextScaffold]_vars

NextDiscover ==
    \/ MkDir
    \/ DiscoverSpecs
    \/ RootCommandInit

SpecDiscover == Init /\ [][NextDiscover]_vars

----------------------------------------------------------------------------
(* The metadata loader on its own: every descriptor over a small alphabet  *)
(* of values for each key.                                                 *)

Absent == [t |-> "absent", s |-> << >>, n |-> 0, b |-> FALSE]

HelpSummaryValues ==
    {Absent, PyNone, PyStr(<< >>), PyStr(<<" ">>), PyStr(<<"o", "k">>),
     PyInt(0), PyInt(5)}
ShortHelpValues ==
    {Absent, PyStr(<< >>), PyStr(<<" ">>), PyStr(<<"k">>), PyInt(5)}
HiddenValues    == {Absent, PyBool(TRUE), PyBool(FALSE)}
EnabledValues   == {Absent, PyBool(TRUE), PyBool(FALSE), PyNone}
HelpGroupValues == {Absent, PyStr(Commands), PyStr(<<"Z">>)}

\* The mapping holding the keys whose value is not Absent.
Descriptor(help, legacy, hidden, enabled, help_group) ==
    LET all == [k \in {"HelpSummary", "shortHelp", "hidden", "enabled", "HelpGroup"} |->
                   CASE k = "HelpSummary" -> help
                     [] k = "shortHelp"   -> legacy
                     [] k = "hidden"      -> hidden
                     [] k = "enabled"     -> enabled
                     [] k = "HelpGroup"   -> help_group]
    IN  [k \in {x \in DOMAIN all : all[x] # Absent} |-> all[k]]

RawFiles ==
    {NoFile, Unparsable, NotMapping}
    \cup {Mapping(Descriptor(h, l, hid, en, hg)) :
             h \in HelpSummaryValues, l \in ShortHelpValues, hid \in HiddenValues,
             en \in EnabledValues, hg \in HelpGroupValues}

\* The descriptor raw is that of a group directory g and of its unit g/u.
InitMeta ==
    /\ raw \in RawFiles
    /\ commands_dir_exists = TRUE
    /\ fs = (<<(<<"g">>)>> :> Dir("group", raw))
            @@ (<<(<<"g">>), (<<"c">>)>> :> Dir("command", raw))
    /\ pc = "setup"
    /\ call = NoCall
    /\ meta_res = NoMeta
    /\ root = NoRoot
    /\ loaded = << >>
    /\ inv = NoInv
    /\ build_excluded = << >>

LoadMeta ==
    /\ pc = "setup"
    /\ meta_res' = [fn |-> "load_meta", res |-> load_meta(raw)]
    /\ pc' = "loaded"
    /\ UNCHANGED <<commands_dir_exists, fs, call, raw, root, loaded, inv, build_excluded>>

LoadGroupMeta ==
    /\ pc = "setup"
    /\ meta_res' = [fn |-> "load_group_meta", res |-> load_group_meta(raw)]
    /\ pc' = "loaded"
    /\ UNCHANGED <<commands_dir_exists, fs, call, raw, root, loaded, inv, build_excluded>>

NextMeta ==
    \/ LoadMeta
    \/ LoadGroupMeta
    \/ DiscoverSpecs

SpecMeta == InitMeta /\ [][NextMeta]_vars

----------------------------------------------------------------------------
(* Properties of the discovered tree, stated on the directories *)

\* Every CommandSpec of a children mapping, at any depth.

RECURSIVE NodesOf(_)
NodesOf(specs) ==
    UNION {{specs[k]} \cup NodesOf(SubcommandsOf(specs[k])) : k \in DOMAIN specs}

\* Every CommandSpec of a mapping returned by discover_specs.
UnitNodes(groups) == UNION {NodesOf(groups[g].subcommands) : g \in DOMAIN groups}

\* enabled is False (Python: enabled == False)
IsFalse(v) == (v.t = "bool" /\ ~v.b) \/ (v.t = "int" /\ v.n = 0)

DisabledIsHidden(rec) == IsFalse(rec.enabled) => rec.hidden = PyBool(TRUE)

\* C3: every record returned by load_meta or load_group_meta, and every
\* CommandSpec and CommandGroupSpec of a tree returned by discover_specs,
\* has hidden = True whenever it has enabled = False, whatever the file
\* says for hidden.
C3_DisabledForcesHidden ==
    /\ meta_res.res.status = "ok" =>
          DisabledIsHidden([enabled |-> meta_res.res.data["enabled"],
                            hidden  |-> meta_res.res.data["hidden"]])
    /\ call.status = "return" =>
          /\ \A g \in DOMAIN call.specs : DisabledIsHidden(call.specs[g])
          /\ \A n \in UnitNodes(call.specs) : DisabledIsHidden(n)

\* The file says enabled: false and hidden: false, and the tree discovered
\* from it holds the group and its unit.
C3_Witness ==
    /\ call.status = "return"
    /\ raw.kind = "map"
    /\ get(raw.data, "enabled") = PyBool(FALSE)
    /\ get(raw.data, "hidden") = PyBool(FALSE)
    /\ \E g \in DOMAIN call.specs :
          /\ IsFalse(call.specs[g].enabled)
          /\ \E n \in NodesOf(call.specs[g].subcommands) : IsFalse(n.enabled)

\* The help-summary field of a descriptor: the current key when the file
\* gives it a value, the legacy key otherwise (spec 4.1).
HelpField(data) ==
    IF get(data, "HelpSummary") # PyNone THEN Some(data["HelpSummary"])
    ELSE IF get(data, "shortHelp") # PyNone THEN Some(data["shortHelp"])
    ELSE None

\* The defaults of load_meta for the keys the file leaves out.
DefaultsApplied(file, data) ==
    /\ "enabled" \notin DOMAIN file => data["enabled"] = PyBool(TRUE)
    /\ "HelpGroup" \notin DOMAIN file => data["HelpGroup"] = PyStr(Commands)
    /\ "hidden" \notin DOMAIN file =>
          data["hidden"] = PyBool(~Truthy(data["enabled"]))
    /\ \A k \in DOMAIN file \ {"HelpSummary", "hidden"} : data[k] = file[k]

\* C10: load_meta fails exactly when the file cannot be parsed, is not a
\* mapping, or its help-summary field is missing, not a string or blank
\* after trimming; otherwise it returns the record with the defaults.
C10_LoadMetaFailsExactlyWhen ==
    meta_res.fn = "load_meta" =>
        LET field == HelpField(raw.data)
            must_fail == \/ raw.kind # "map"
                         \/ field = None
                         \/ field[1].t # "str"
                         \/ strip(field[1].s) = << >>
        IN  /\ (meta_res.res.status = "error") <=> must_fail
            /\ meta_res.res.status = "ok" => DefaultsApplied(raw.data, meta_res.res.data)

\* What does hold: the same statement about the value of
\* HelpSummary-or-shortHelp (a falsy HelpSummary counts as absent).
LoadMetaFailsOnEffectiveValue ==
    meta_res.fn = "load_meta" =>
        LET value == PyOr(get(raw.data, "HelpSummary"), get(raw.data, "shortHelp"))
            must_fail == \/ raw.kind # "map"
                         \/ value.t # "str"
                         \/ strip(value.s) = << >>
        IN  /\ (meta_res.res.status = "error") <=> must_fail
            /\ meta_res.res.status = "ok" => DefaultsApplied(raw.data, meta_res.res.data)

\* The outcome a help-summary value decides on its own: the record with
\* that text when it is a non-blank string, the failure otherwise.
DecidedBy(res, value) ==
    IF NonEmptyString(value)
    THEN res.status = "ok" /\ res.data["HelpSummary"] = value
    ELSE res.status = "error"

\* C11: when a descriptor holds both HelpSummary and shortHelp, the outcome
\* of load_meta and of load_group_meta (the help text, or the failure) is
\* decided by the value of HelpSummary alone, for every pair of values of
\* the two keys.
C11_CurrentKeyTakesPrecedence ==
    (/\ meta_res.fn # "none"
     /\ raw.kind = "map"
     /\ get(raw.data, "HelpSummary") # PyNone
     /\ "shortHelp" \in DOMAIN raw.data)
    => DecidedBy(meta_res.res, raw.data["HelpSummary"])

\* What holds instead: the current key decides whenever its value is truthy
\* (a non-empty string, a non-zero number); a falsy one gives way to the
\* legacy key.
CurrentKeyDecidesWhenTruthy ==
    (/\ meta_res.fn # "none"
     /\ raw.kind = "map"
     /\ "shortHelp" \in DOMAIN raw.data)
    => DecidedBy(meta_res.res,
                 IF Truthy(get(raw.data, "HelpSummary"))
                 THEN raw.data["HelpSummary"]
                 ELSE raw.data["shortHelp"])

\* C12: load_group_meta gives what load_meta gives (same record, failure in
\* the same cases) on every existing file whose help-summary field is
\* present, and tells absent, without error, when the file is missing or
\* has no help-summary field.
C12_GroupLoaderAgreesWithLoadMeta ==
    meta_res.fn = "load_group_meta" =>
        IF raw.kind = "nofile" \/ (raw.kind = "map" /\ HelpField(raw.data) = None)
        THEN meta_res.res = MetaNone
        ELSE meta_res.res = load_meta(raw)

\* What holds instead: the same with "no help-summary field" read as "the
\* value of HelpSummary-or-shortHelp is None", which a falsy HelpSummary
\* without legacy key gives too.
GroupLoaderAgreesOnEffectiveValue ==
    meta_res.fn = "load_group_meta" =>
        IF \/ raw.kind = "nofile"
           \/ /\ raw.kind = "map"
              /\ PyOr(get(raw.data, "HelpSummary"), get(raw.data, "shortHelp")) = PyNone
        THEN meta_res.res = MetaNone
        ELSE meta_res.res = load_meta(raw)

----------------------------------------------------------------------------
(* The unit tree as the specification describes it, read off the directories
   (not off the discoverer's result). *)

\* No component of the path is a tooling artefact.
NoArtefact(p) == \A i \in DOMAIN p : ~IsArtefact(p[i])

\* A directory directly below the commands root has depth 1; with cap d the
\* discoverer looks at directories of depth 1 .. d + 1.
WithinCap(p, d) == Len(p) <= d + 1

HasBothFiles(dir) == dir.entry # "none" /\ dir.meta.kind # "nofile"

\* A unit directory (depth >= 2) with both files and a valid descriptor.
ValidUnit(fsv, p) == HasBothFiles(fsv[p]) /\ load_meta(fsv[p].meta).status = "ok"

\* The directories the walk reaches under cap d: top-level directories, and
\* unit directories all of whose unit ancestors are valid.
Walked(fsv, p, d) ==
    /\ NoArtefact(p)
    /\ WithinCap(p, d)
    /\ \A k \in 2..(Len(p) - 1) : ValidUnit(fsv, SubSeq(p, 1, k))

\* A structural problem: a unit directory that is not a valid unit, or a
\* top-level directory whose descriptor is present and invalid.
Problem(fsv, p) ==
    IF Len(p) = 1
    THEN load_group_meta(fsv[p].meta).status = "error"
    ELSE ~ValidUnit(fsv, p)

WalkedProblems(exists, fsv, d) ==
    IF exists
    THEN {p \in DOMAIN fsv : Walked(fsv, p, d) /\ Problem(fsv, p)}
    ELSE {}

ErrorPaths(errors) == {errors[i].path : i \in DOMAIN errors}

SafePath(p) == [i \in DOMAIN p |-> _safe_name(p[i])]

\* The node of a nested mapping found by following keys, or None.
RECURSIVE Descend(_, _)
Descend(specs, keys) ==
    IF Head(keys) \notin DOMAIN specs
    THEN None
    ELSE IF Len(keys) = 1
    THEN Some(specs[Head(keys)])
    ELSE Descend(SubcommandsOf(specs[Head(keys)]), Tail(keys))

\* The unit node at a position of the discovered tree (keys has the group
\* first and at least one unit name).
NodeAt(groups, keys) ==
    IF Head(keys) \notin DOMAIN groups
    THEN None
    ELSE Descend(groups[Head(keys)].subcommands, Tail(keys))

\* The valid unit directories directly below p that the cap lets in.
ValidChildren(fsv, p, d) ==
    {c \in SubDirNames(fsv, p) :
        /\ ~IsArtefact(c)
        /\ WithinCap(Append(p, c), d)
        /\ ValidUnit(fsv, Append(p, c))}

\* The results at hand: the one of the explicit call, with its cap, and
\* the one RootCommand holds, with the default cap.
Results ==
    (IF call.status = "none" THEN {}
     ELSE {[status |-> call.status, specs |-> call.specs,
            errors |-> call.errors, max_depth |-> call.max_depth]})
    \cup
    (IF root.status = "none" THEN {}
     ELSE {[status |-> IF root.status = "ready" THEN "return" ELSE "raise",
            specs |-> root.specs, errors |-> root.errors,
            max_depth |-> DefaultMaxDepth]})

----------------------------------------------------------------------------
(* Claims about tree discovery (SpecDiscover) *)

\* The unit directories (depth >= 2) within the cap that are broken: a file
\* is missing or the descriptor is rejected.
BrokenUnits(fsv, d) ==
    {p \in DOMAIN fsv :
        Len(p) >= 2 /\ NoArtefact(p) /\ WithinCap(p, d) /\ ~ValidUnit(fsv, p)}

\* C4: when N unit directories within the depth cap are broken, wherever
\* they sit in the tree, discovery fails with a single error that has an
\* entry for each of the N directories.
C4_EveryBrokenUnitListed ==
    \A r \in Results :
        LET broken == BrokenUnits(fs, r.max_depth)
        IN  broken # {} =>
              /\ r.status = "raise"
              /\ \A p \in broken : p \in ErrorPaths(r.errors)

\* What holds instead: the broken unit directories the walk reaches are each
\* listed; a broken unit directory below a broken one is never looked at.
WalkedBrokenUnitsListed ==
    \A r \in Results :
        \A p \in BrokenUnits(fs, r.max_depth) :
            Walked(fs, p, r.max_depth) <=> p \in ErrorPaths(r.errors)

\* C5: discovery returns a mapping only when no structural problem was
\* recorded anywhere in the walked tree; otherwise it raises, after every
\* sibling has been walked, with one entry per problem and no mapping;
\* RootCommand's construction then fails and no invocation is served.
C5_ReturnsOnlyWithoutProblems ==
    /\ \A r \in Results :
          LET problems == WalkedProblems(commands_dir_exists, fs, r.max_depth)
          IN  /\ (r.status = "return") <=> (problems = {})
              /\ r.status = "raise" =>
                    /\ ErrorPaths(r.errors) = problems
                    /\ Len(r.errors) = Cardinality(problems)
                    /\ r.specs = EmptySpecs
    /\ (root.status = "failed") <=> (pc = "crashed")
    /\ pc = "crashed" => inv = NoInv /\ ~ENABLED (Dispatch \/ Help \/ Version)

\* Discovery has failed on problems in two sibling groups, the second one
\* walked after the first had already recorded an error.
C5_Witness ==
    /\ pc = "crashed"
    /\ Cardinality({e[1] : e \in ErrorPaths(root.errors)}) >= 2

\* C6: on a tree it accepts, every directory holding both files appears in
\* the discovered tree at the position given by its path; a unit is a group
\* exactly when it has at least one valid nested unit directory, and carries
\* a subcommand mapping exactly when it is a group.
C6_EveryUnitDirectoryAppears ==
    \A r \in Results :
        r.status = "return" =>
          /\ \A p \in DOMAIN fs :
                (Walked(fs, p, r.max_depth) /\ HasBothFiles(fs[p])) =>
                   IF Len(p) = 1
                   THEN /\ _safe_name(p[1]) \in DOMAIN r.specs
                        /\ r.specs[_safe_name(p[1])].import_command = p[1]
                   ELSE /\ NodeAt(r.specs, SafePath(p)) # None
                        /\ NodeAt(r.specs, SafePath(p))[1].import_path = p
          /\ \A n \in UnitNodes(r.specs) :
                /\ n.is_group = (ValidChildren(fs, n.import_path, r.max_depth) # {})
                /\ (n.subcommands # None) = n.is_group

\* No two sibling directories of the walked tree get the same command name.
NoNameCollision(fsv, d) ==
    \A p, q \in DOMAIN fsv :
        (/\ Walked(fsv, p, d) /\ Walked(fsv, q, d)
         /\ Len(p) = Len(q) /\ p # q
         /\ SubSeq(p, 1, Len(p) - 1) = SubSeq(q, 1, Len(q) - 1))
        => _safe_name(p[Len(p)]) # _safe_name(q[Len(q)])

\* What holds instead: the same, for trees without sibling directories
\* whose names differ only by '_' versus '-'.
UnitDirectoriesAppearUnlessNamesCollide ==
    \A r \in Results :
        (r.status = "return" /\ NoNameCollision(fs, r.max_depth)) =>
          /\ \A p \in DOMAIN fs :
                (Walked(fs, p, r.max_depth) /\ HasBothFiles(fs[p])) =>
                   IF Len(p) = 1
                   THEN /\ _safe_name(p[1]) \in DOMAIN r.specs
                        /\ r.specs[_safe_name(p[1])].import_command = p[1]
                   ELSE /\ NodeAt(r.specs, SafePath(p)) # None
                        /\ NodeAt(r.specs, SafePath(p))[1].import_path = p
          /\ \A n \in UnitNodes(r.specs) :
                /\ n.is_group = (ValidChildren(fs, n.import_path, r.max_depth) # {})
                /\ (n.subcommands # None) = n.is_group

\* The directories of depth at most d + 1, the rest cut off.
Truncate(fsv, d) == [p \in {q \in DOMAIN fsv : Len(q) <= d + 1} |-> fsv[p]]

SameResult(r, res) ==
    r.status = res.status /\ r.specs = res.specs /\ r.errors = res.errors

\* C7: for every tree and every cap d >= 0 discovery ends (it returns or
\* raises), and the directories deeper than the cap contribute neither units
\* nor errors: the result is the one of the tree cut off at the cap.
C7_DepthCapTruncatesSilently ==
    /\ pc = "discovered" => call.status \in {"return", "raise"}
    /\ \A r \in Results :
          /\ \A p \in ErrorPaths(r.errors) : Len(p) <= r.max_depth + 1
          /\ \A n \in UnitNodes(r.specs) : Len(n.import_path) <= r.max_depth + 1
          /\ SameResult(r, discover_specs(commands_dir_exists,
                                          Truncate(fs, r.max_depth), r.max_depth))

\* A tree valid down to the cap, with a unit discovered, and broken beyond
\* the cap: the call returned.
C7_Witness ==
    /\ call.status = "return"
    /\ UnitNodes(call.specs) # {}
    /\ \E p \in DOMAIN fs :
          /\ Len(p) > call.max_depth + 1
          /\ NoArtefact(p)
          /\ ~HasBothFiles(fs[p])

\* The top-level directory has an entry of its own in the mapping.
IsKey(specs, name) ==
    /\ _safe_name(name) \in DOMAIN specs
    /\ specs[_safe_name(name)].import_command = name

\* It has its own entry file or at least one valid nested unit.
Qualifies(fsv, name, d) ==
    fsv[<<name>>].entry # "none" \/ ValidChildren(fsv, <<name>>, d) # {}

\* C8: a top-level directory is a key of the returned mapping if and only
\* if it has at least one valid nested unit or its own entry file; one with
\* neither is left out, and adds no error (its descriptor being acceptable).
C8_GroupKeptIffUnitsOrEntry ==
    \A r \in Results :
        \A name \in SubDirNames(fs, << >>) :
            LET keep == ~IsArtefact(name) /\ Qualifies(fs, name, r.max_depth)
            IN  /\ r.status = "return" => (IsKey(r.specs, name) <=> keep)
                /\ (~keep /\ load_group_meta(fs[<<name>>].meta).status # "error")
                      => <<name>> \notin ErrorPaths(r.errors)

\* What holds instead: the same, when no two top-level directories get the
\* same command name.
GroupKeptIffUnitsOrEntryUnlessNamesCollide ==
    \A r \in Results :
        \A name \in SubDirNames(fs, << >>) :
            LET keep == ~IsArtefact(name) /\ Qualifies(fs, name, r.max_depth)
            IN  /\ (r.status = "return" /\ NoNameCollision(fs, 0))
                      => (IsKey(r.specs, name) <=> keep)
                /\ (~keep /\ load_group_meta(fs[<<name>>].meta).status # "error")
                      => <<name>> \notin ErrorPaths(r.errors)

\* The name starts with '.' or with '__' (read off the characters).
DotOrDunder(name) ==
    \/ (Len(name) >= 1 /\ name[1] = ".")
    \/ (Len(name) >= 2 /\ name[1] = "_" /\ name[2] = "_")

Skipped(p) == \E i \in DOMAIN p : DotOrDunder(p[i])

\* The tree without the skipped directories and what is below them.
Pruned(fsv) == [p \in {q \in DOMAIN fsv : ~Skipped(q)} |-> fsv[p]]

\* C9: directories whose name starts with '.' or '__' are skipped at every
\* level: they become neither groups nor units and add no error, and the
\* result is the one of the tree without them.
C9_ArtefactDirectoriesSkipped ==
    \A r \in Results :
        /\ \A p \in ErrorPaths(r.errors) : ~Skipped(p)
        /\ \A n \in UnitNodes(r.specs) : ~Skipped(n.import_path)
        /\ \A g \in DOMAIN r.specs : ~DotOrDunder(r.specs[g].import_command)
        /\ SameResult(r, discover_specs(commands_dir_exists, Pruned(fs),
                                        r.max_depth))

\* A skipped directory without either file sits below a group, next to a
\* valid unit that was discovered.
C9_Witness ==
    /\ call.status = "return"
    /\ \E p \in DOMAIN fs, n \in UnitNodes(call.specs) :
          /\ Len(p) = 2
          /\ DotOrDunder(p[2])
          /\ fs[p].entry = "none" /\ fs[p].meta.kind = "nofile"
          /\ Len(n.import_path) = 2
          /\ n.import_path[1] = p[1]

----------------------------------------------------------------------------
(* Claims about lazy loading (Spec) *)

IsPrefix(p, q) == Len(p) <= Len(q) /\ SubSeq(q, 1, Len(p)) = p

\* The entry.py files executed by the invocation served, as typed paths.
LoadedPaths == {SafePath(loaded[i]) : i \in DOMAIN loaded}

\* C1: dispatching the path "a b" (group a, unit b) executes the entry.py of
\* a (when it has one) and of b, and never the entry.py of a sibling unit
\* a/c or of another top-level group x.
C1_DispatchLoadsNoSibling ==
    (inv.kind = "dispatch" /\ Len(inv.cmdline.path) = 2) =>
        LET a == inv.cmdline.path[1]
            b == inv.cmdline.path[2]
        IN  /\ \A p \in LoadedPaths :
                  /\ p[1] = a
                  /\ Len(p) >= 2 => p[2] = b
            /\ \A p \in LoadedPaths : IsPrefix(p, <<a, b>>) \/ IsPrefix(<<a, b>>, p)
            /\ inv.out = "ran" =>
                  /\ LoadedPaths \subseteq {<<a>>, <<a, b>>}
                  /\ <<a, b>> \in LoadedPaths
                  /\ (fs[<<a>>].entry # "none") => <<a>> \in LoadedPaths

\* "a b" ran b, with a sibling unit a/c and another group x around, both
\* enabled and with an entry.py, neither of them executed.
C1_Witness ==
    /\ inv.kind = "dispatch"
    /\ inv.out = "ran"
    /\ Len(inv.cmdline.path) = 2
    /\ LET a == inv.cmdline.path[1]
           b == inv.cmdline.path[2]
       IN  /\ loaded = << <<a>>, <<a, b>> >>
           /\ \E c \in PluginNames :
                 /\ c # b
                 /\ <<a, c>> \in DOMAIN fs
                 /\ fs[<<a, c>>].meta = ValidMeta
           /\ \E x \in PluginNames :
                 /\ x # a
                 /\ <<x>> \in DOMAIN fs
                 /\ fs[<<x>>].entry # "none"
                 /\ fs[<<x>>].meta = NoFile

\* C2: during a whole invocation (discovery, dispatch, --help at the root or
\* at a group) the entry.py of a unit is executed only if the unit's path is
\* a prefix of the path typed on the command line.
C2_LoadsOnlyResolutionChain ==
    /\ inv.kind = "none" => loaded = << >>
    /\ inv.kind # "none" => \A p \in LoadedPaths : IsPrefix(p, inv.cmdline.path)

\* What holds instead: an entry.py is executed only on the resolution chain
\* or for the listing printed at its end, of which it is a direct child.
LoadsOnlyChainOrListedChildren ==
    inv.kind # "none" =>
        \A p \in LoadedPaths :
            \/ IsPrefix(p, inv.cmdline.path)
            \/ /\ inv.out \in {"help", "RuntimeError"}
               /\ Len(p) >= 1
               /\ IsPrefix(SubSeq(p, 1, Len(p) - 1), inv.cmdline.path)

----------------------------------------------------------------------------
(* Claims about disabled and hidden entries (Spec) *)

\* The discovered spec at a typed path (a group spec for one segment, a
\* unit spec for more), or None.
SpecAt(specs, p) ==
    IF p = << >>
    THEN None
    ELSE IF Len(p) = 1
    THEN (IF p[1] \in DOMAIN specs THEN Some(specs[p[1]]) ELSE None)
    ELSE NodeAt(specs, p)

\* The directory of the spec at a typed path.
DirOf(specs, p) ==
    IF Len(p) = 1 THEN <<SpecAt(specs, p)[1].import_command>>
    ELSE SpecAt(specs, p)[1].import_path

\* Every proper ancestor of the typed path is enabled and its entry.py, if
\* it has one, exports a group.
AncestorsResolve(fsv, specs, p) ==
    \A k \in 1..(Len(p) - 1) :
        LET q == SubSeq(p, 1, k)
        IN  /\ SpecAt(specs, q) # None
            /\ Truthy(SpecAt(specs, q)[1].enabled)
            /\ fsv[DirOf(specs, q)].entry \in {"none", "group"}

IsDisabled(specs, p) == SpecAt(specs, p) # None /\ ~Truthy(SpecAt(specs, p)[1].enabled)

\* A unit without nested units.
IsLeafUnit(specs, p) ==
    Len(p) >= 2 /\ SpecAt(specs, p) # None /\ ~SpecAt(specs, p)[1].is_group

\* The names a listing shows.
ListedNames(sections) ==
    UNION {{sections[i].rows[j].name : j \in DOMAIN sections[i].rows} :
              i \in DOMAIN sections}

\* C13: invoking a disabled leaf unit below enabled parents ends with exit
\* status 1 and a message "is disabled" naming the unit's import path (its
\* entry.py is not executed), and the unit is not in its parent's listing.
C13_DisabledLeafFails ==
    LET p == inv.cmdline.path
    IN  /\ (/\ inv.kind = "dispatch"
            /\ IsLeafUnit(root.specs, p)
            /\ IsDisabled(root.specs, p)
            /\ AncestorsResolve(fs, root.specs, p))
           => /\ inv.exit = 1
              /\ inv.out = "is disabled"
              /\ inv.path = DirOf(root.specs, p)
              /\ \A i \in DOMAIN loaded : loaded[i] # DirOf(root.specs, p)
        /\ inv.out = "help" =>
              \A n \in ListedNames(inv.rows) :
                  ~(IsLeafUnit(root.specs, Append(p, n))
                    /\ IsDisabled(root.specs, Append(p, n)))

\* A disabled leaf below a group that has its own entry.py was invoked.
C13_Witness ==
    LET p == inv.cmdline.path
    IN  /\ inv.kind = "dispatch"
        /\ IsLeafUnit(root.specs, p)
        /\ IsDisabled(root.specs, p)
        /\ AncestorsResolve(fs, root.specs, p)
        /\ loaded = << <<p[1]>> >>
        /\ inv.exit = 1

\* A top-level group, or a unit with nested units.
IsGroupAt(specs, p) ==
    SpecAt(specs, p) # None /\ (Len(p) = 1 \/ SpecAt(specs, p)[1].is_group)

\* The prefixes of the typed path that are disabled groups below enabled,
\* loading ancestors.
DisabledGroupsOn(fsv, specs, p) ==
    {q \in {SubSeq(p, 1, k) : k \in 1..Len(p)} :
        /\ IsGroupAt(specs, q)
        /\ IsDisabled(specs, q)
        /\ AncestorsResolve(fsv, specs, q)}

\* C14: invoking a disabled group (top-level or nested), with or without
\* further path segments after it, fails like a disabled leaf: exit status
\* 1 and an "is disabled" message; the stub group exposes no children.
C14_DisabledGroupFails ==
    (inv.kind = "dispatch" /\ DisabledGroupsOn(fs, root.specs, inv.cmdline.path) # {})
    => /\ inv.exit = 1
       /\ inv.out = "is disabled"
       /\ \A i \in DOMAIN loaded :
             \A q \in DisabledGroupsOn(fs, root.specs, inv.cmdline.path) :
                 ~IsPrefix(q, SafePath(loaded[i]))

\* What holds instead: the stub group exposes no children and its callback
\* never runs; alone it prints its (empty) help, with further segments it
\* is a usage error "No such command".
DisabledGroupStubNeverRuns ==
    (inv.kind = "dispatch" /\ DisabledGroupsOn(fs, root.specs, inv.cmdline.path) # {})
    => /\ IF inv.cmdline.path \in DisabledGroupsOn(fs, root.specs, inv.cmdline.path)
          THEN inv.out = "help" /\ inv.rows = << >> /\ inv.exit \in NoArgsExits
          ELSE inv.out = "No such command" /\ inv.exit = 2
       /\ \A i \in DOMAIN loaded :
             \A q \in DisabledGroupsOn(fs, root.specs, inv.cmdline.path) :
                 ~IsPrefix(q, SafePath(loaded[i]))

\* The typed path or one of its proper prefixes is a disabled spec.
DisabledOnPath(specs, p) ==
    \E k \in 1..Len(p) : IsDisabled(specs, SubSeq(p, 1, k))

\* C15: in every invocation (dispatch or listing) the entry.py of a disabled
\* unit or group is not executed, nor the entry.py of any of its
\* descendants.
C15_DisabledNeverLoaded ==
    \A i \in DOMAIN loaded : ~DisabledOnPath(root.specs, SafePath(loaded[i]))

\* The root listing was printed, executing some entry.py, with a disabled
\* group around that has an entry.py and a nested unit.
C15_Witness ==
    /\ inv.kind = "help"
    /\ inv.cmdline.path = << >>
    /\ loaded # << >>
    /\ \E g \in DOMAIN root.specs :
          /\ ~Truthy(root.specs[g].enabled)
          /\ root.specs[g].entry_path # None
          /\ DOMAIN root.specs[g].subcommands # {}

----------------------------------------------------------------------------
(* Claims about the eager --version flag (Spec) *)

----------------------------------------------------------------------------
(* Claims about hidden entries and the help listing (SpecHelp) *)

IsHiddenEnabled(specs, p) ==
    /\ SpecAt(specs, p) # None
    /\ Truthy(SpecAt(specs, p)[1].enabled)
    /\ Truthy(SpecAt(specs, p)[1].hidden)

\* The directories of the hidden, enabled specs on the typed path.
HiddenDirsOn(specs, p) ==
    {DirOf(specs, SubSeq(p, 1, k)) :
        k \in {j \in 1..Len(p) : IsHiddenEnabled(specs, SubSeq(p, 1, j))}}

\* The same tree with the hidden key taken out of the given descriptors.
Unhide(fsv, dirs) ==
    [d \in DOMAIN fsv |->
        IF d \in dirs /\ fsv[d].meta.kind = "map"
        THEN [fsv[d] EXCEPT !.meta =
                 Mapping([k \in DOMAIN fsv[d].meta.data \ {"hidden"} |->
                             fsv[d].meta.data[k]])]
        ELSE fsv[d]]

\* An invocation and an outcome agree in everything but the hidden flag of
\* the command reached.
SameRun(o, e) ==
    /\ o.exit = e.exit
    /\ o.out = e.out
    /\ o.rows = e.rows
    /\ o.calls = e.calls
    /\ o.loads = loaded
    /\ o.what = e.what
    /\ o.path = e.path
    /\ [o.cmd EXCEPT !.hidden = e.cmd.hidden] = e.cmd

\* C16: a hidden but enabled entry (top-level group or nested unit) is in no
\* listing of its parent, and a dispatch through it by exact name runs as it
\* does on the same tree with the entry visible: same exit status, output,
\* get_command calls and entry files executed.
C16_HiddenStillDispatches ==
    LET p == inv.cmdline.path
    IN  /\ inv.out = "help" =>
              \A n \in ListedNames(inv.rows) :
                  ~IsHiddenEnabled(root.specs, Append(p, n))
        /\ (inv.kind = "dispatch" /\ HiddenDirsOn(root.specs, p) # {}) =>
              LET fs2 == Unhide(fs, HiddenDirsOn(root.specs, p))
                  r2  == discover_specs(TRUE, fs2, DefaultMaxDepth)
              IN  /\ r2.status # "raise"
                  /\ HiddenDirsOn(r2.specs, p) = {}
                  /\ \E e \in NoArgsExits :
                        SameRun(Invoke(fs2, r2.specs, inv.cmdline, e), inv)

\* A hidden unit below a group was dispatched by name and its command ran.
C16_Witness ==
    /\ inv.kind = "dispatch"
    /\ Len(inv.cmdline.path) = 2
    /\ IsHiddenEnabled(root.specs, inv.cmdline.path)
    /\ inv.out = "ran"
    /\ inv.cmd.hidden

\* The specs a listing at the typed path iterates over.
ChildSpecs(specs, p) ==
    IF p = << >>
    THEN specs
    ELSE IF SpecAt(specs, p) = None
    THEN EmptySpecs
    ELSE SpecAt(specs, p)[1].subcommands

\* The children that the descriptors make visible: enabled and not hidden.
VisibleNames(specs, p) ==
    {n \in DOMAIN ChildSpecs(specs, p) :
        /\ Truthy(ChildSpecs(specs, p)[n].enabled)
        /\ ~Truthy(ChildSpecs(specs, p)[n].hidden)}

\* Where a name stands in a listing: <<section, row>> pairs.
PlacesOf(sections, n) ==
    {<<i, j>> \in (DOMAIN sections) \X (1..MaxEntries) :
        j \in DOMAIN sections[i].rows /\ sections[i].rows[j].name = n}

\* C17: the listing printed at the root or at an enabled group is determined
\* by the descriptors: exactly the visible entries are listed, each once and
\* in the section titled by its HelpGroup; no section is empty; the section
\* "Commands" comes first and the others follow in ascending order of their
\* titles; within a section the entries ascend by name.  (Being a function of
\* the specs, the listing of a second run is the same.)
C17_ListingFromDescriptors ==
    LET p    == inv.cmdline.path
        secs == inv.rows
        kids == ChildSpecs(root.specs, p)
    IN  (inv.out = "help" /\ ~DisabledOnPath(root.specs, p)) =>
          /\ ListedNames(secs) = VisibleNames(root.specs, p)
          /\ \A n \in VisibleNames(root.specs, p) :
                /\ Cardinality(PlacesOf(secs, n)) = 1
                /\ \A pl \in PlacesOf(secs, n) :
                      secs[pl[1]].title = kids[n].help_group.s
          /\ \A i \in DOMAIN secs : secs[i].rows # << >>
          /\ \A i, j \in DOMAIN secs :
                i < j => /\ secs[j].title # Commands
                         /\ secs[i].title # secs[j].title
                         /\ (secs[i].title = Commands
                             \/ StrLess(secs[i].title, secs[j].title))
          /\ \A i \in DOMAIN secs :
                \A j, k \in DOMAIN secs[i].rows :
                    j < k => StrLess(secs[i].rows[j].name, secs[i].rows[k].name)

\* A listing with three sections was printed: "Commands" ahead of "A" and "Z".
C17_Witness ==
    /\ inv.kind = "help"
    /\ inv.out = "help"
    /\ Len(inv.rows) = 3
    /\ inv.rows[1].title = Commands
    /\ inv.rows[2].title = <<"A">>

\* The help text a descriptor gives, or None without a descriptor.
DescriptorHelp(fsv, d) ==
    IF fsv[d].meta.kind = "map" /\ "HelpSummary" \in DOMAIN fsv[d].meta.data
    THEN Some(fsv[d].meta.data["HelpSummary"].s)
    ELSE None

\* The command carries the name and hidden flag of the spec at path q and
\* the help text of the descriptor there (when there is a descriptor).
CarriesSpecMetadata(cmd, q) ==
    LET sp == SpecAt(root.specs, q)[1]
        d  == DirOf(root.specs, q)
    IN  /\ cmd.name = q[Len(q)]
        /\ cmd.hidden = Truthy(sp.hidden)
        /\ DescriptorHelp(fs, d) # None => cmd.help = DescriptorHelp(fs, d)[1]

\* C18: every command returned by a successful resolution of an enabled
\* node (top level or nested, reached by dispatch or for a listing) has the
\* name and the hidden flag of its discovered spec and the help text of its
\* descriptor, whatever name, docstring and hidden flag its entry.py gave
\* the exported object.
C18_MetadataOverwritten ==
    LET p == inv.cmdline.path
    IN  /\ (inv.cmd.import_path # << >> /\ ~inv.cmd.disabled) =>
              CarriesSpecMetadata(inv.cmd, inv.cmd.import_path)
        /\ (inv.out = "help" /\ ~DisabledOnPath(root.specs, p)) =>
              \A i \in DOMAIN inv.rows :
                  \A j \in DOMAIN inv.rows[i].rows :
                      LET row == inv.rows[i].rows[j]
                          d   == DirOf(root.specs, Append(p, row.name))
                      IN  DescriptorHelp(fs, d) # None =>
                              row.help = DescriptorHelp(fs, d)[1]

\* A unit whose entry.py sets hidden=True, a name and a docstring of its own
\* was dispatched and ran under the name, help text and visibility of its
\* descriptor.
C18_Witness ==
    /\ inv.kind = "dispatch"
    /\ inv.out = "ran"
    /\ Len(inv.cmd.import_path) = 2
    /\ fs[inv.cmd.import_path].own.hidden
    /\ fs[inv.cmd.import_path].own.name # inv.cmd.name
    /\ ~inv.cmd.hidden
    /\ inv.cmd.help = <<"o", "k">>

----------------------------------------------------------------------------
(* Claims about the exported object (SpecHelp) *)

\* The typed path names an enabled node below enabled, loading ancestors,
\* and the node has an entry.py.
ResolvesEntryAt(p) ==
    /\ inv.kind \in {"dispatch", "help"}
    /\ SpecAt(root.specs, p) # None
    /\ ~DisabledOnPath(root.specs, p)
    /\ AncestorsResolve(fs, root.specs, p)
    /\ fs[DirOf(root.specs, p)].entry # "none"

HasNestedUnits(p) == DOMAIN ChildSpecs(root.specs, p) # {}

\* The run ended with the RuntimeError about the export of the entry.py in
\* directory d.
ExportRejected(d) ==
    inv.out = "RuntimeError" /\ inv.what = "export" /\ inv.path = d

\* C19: a node resolves exactly when its entry.py exports a group and the
\* node has nested units, or exports a leaf (non-group) command and the node
\* has none; otherwise resolution fails with an error naming the entry file.
C19_ExportMatchesDiscovery ==
    LET p == inv.cmdline.path
        d == DirOf(root.specs, p)
    IN  ResolvesEntryAt(p) =>
            (ExportRejected(d) <=>
                fs[d].entry # (IF HasNestedUnits(p) THEN "group" ELSE "command"))

\* What holds instead: a node with nested units needs a click.Group, a node
\* without nested units takes any click.Command, groups included.
ExportAcceptedWhenCommand ==
    LET p == inv.cmdline.path
        d == DirOf(root.specs, p)
    IN  ResolvesEntryAt(p) =>
            (ExportRejected(d) <=>
                IF HasNestedUnits(p)
                THEN fs[d].entry # "group"
                ELSE fs[d].entry \notin {"command", "group"})

----------------------------------------------------------------------------
(* Claims about unresolved segments (Spec) *)

\* The number of leading segments of the typed path that name a spec.
RECURSIVE ResolvedLength(_, _, _)
ResolvedLength(specs, p, k) ==
    IF k < Len(p) /\ SpecAt(specs, SubSeq(p, 1, k + 1)) # None
    THEN ResolvedLength(specs, p, k + 1)
    ELSE k

\* The typed path leaves the tree at a group: segment k + 1 names no child
\* of the node that the first k segments reach, and that node and its
\* ancestors are enabled and resolve to groups.
LeavesTreeAt(p, k) ==
    /\ inv.kind \in {"dispatch", "help"}
    /\ k = ResolvedLength(root.specs, p, 0)
    /\ k < Len(p)
    /\ AncestorsResolve(fs, root.specs, SubSeq(p, 1, k + 1))

\* C21: a segment that names no child of the group reached so far (the root,
\* a top-level group or a nested group of an enabled tree) ends the
\* invocation with click's "No such command" usage error and exit status 2;
\* get_command was called for the segments up to that one and no further,
\* only entry.py files of the groups passed were executed, and no unit ran.
C21_UnknownSegmentEndsRun ==
    LET p == inv.cmdline.path
    IN  \A k \in 0..MaxArgs :
            LeavesTreeAt(p, k) =>
                /\ inv.exit = 2
                /\ inv.out = "No such command"
                /\ inv.calls = SubSeq(p, 1, k + 1)
                /\ \A q \in LoadedPaths : IsPrefix(q, SubSeq(p, 1, k))

\* The second segment named no child of a top-level group whose entry.py had
\* been executed to reach it.
C21_Witness ==
    /\ inv.kind = "dispatch"
    /\ Len(inv.cmdline.path) = 2
    /\ LeavesTreeAt(inv.cmdline.path, 1)
    /\ loaded = << <<inv.cmdline.path[1]>> >>
    /\ DOMAIN root.specs[inv.cmdline.path[1]].subcommands # {}
    /\ inv.out = "No such command"

----------------------------------------------------------------------------
(* Claims about the scaffolding utility (SpecScaffold) *)

\* The name holds a character outside letters, digits, '_' and '-' (a
\* newline that ends the name is let through by the '$' of the pattern).
HasForeignChar(name) ==
    \E i \in DOMAIN name :
        /\ name[i] \notin NameChars
        /\ ~(i = Len(name) /\ i > 1 /\ name[i] = "\n")

\* The files whose presence makes a request without --force a refusal.
TargetFilesExist(fsv, req) ==
    IF req.subcommand = None
    THEN EntryExists(fsv, <<req.command>>) \/ MetaExists(fsv, <<req.command>>)
    ELSE \/ EntryExists(fsv, <<req.command, req.subcommand[1]>>)
         \/ MetaExists(fsv, <<req.command, req.subcommand[1]>>)
         \/ MetaExists(fsv, <<req.command>>)

\* A request of one of the four refused kinds.
MustRefuse(fsv, req) ==
    \/ HasForeignChar(req.command)
    \/ (req.subcommand # None /\ HasForeignChar(req.subcommand[1]))
    \/ req.escapes
    \/ (~req.force /\ TargetFilesExist(fsv, req))
    \/ (req.subcommand = None /\ req.command_short_help = None)

\* C22: a request of a refused kind (a name with a character outside the
\* class, a target outside the commands root, existing files without
\* --force, a standalone command without --command-short-help) is refused,
\* and every refusal exits with status 2 and leaves the tree as it was: no
\* directory created, no file written or modified.
C22_RefusalLeavesTreeUnchanged ==
    inv.kind = "scaffold" =>
        /\ MustRefuse(inv.before, inv.req) => inv.exit # 0
        /\ inv.exit # 0 =>
              /\ inv.exit = 2
              /\ fs = inv.before
              /\ commands_dir_exists = inv.before_exists

\* A request with --force absent was refused because the unit it names
\* already has its files.
C22_Witness ==
    /\ inv.kind = "scaffold"
    /\ inv.req.subcommand # None
    /\ ~inv.req.force
    /\ ~inv.req.escapes
    /\ EntryExists(inv.before, <<inv.req.command, inv.req.subcommand[1]>>)
    /\ inv.exit = 2
    /\ inv.out = "already exists"


\* The scaffolder created the unit COMMAND/SUBCOMMAND in a tree that
\* discovery accepted before.
ScaffoldedUnit ==
    /\ inv.kind = "scaffold"
    /\ inv.exit = 0
    /\ inv.req.subcommand # None
    /\ discover_specs(inv.before_exists, inv.before, DefaultMaxDepth).status = "return"

\* Discovery of the tree succeeds and holds the group for the command with
\* a child for the subcommand, whose directory has an entry.py and a
\* descriptor that load_meta accepts.
DiscoveryHoldsUnit(c, sc) ==
    LET r == discover_specs(commands_dir_exists, fs, DefaultMaxDepth)
    IN  /\ r.status = "return"
        /\ _safe_name(c) \in DOMAIN r.specs
        /\ _safe_name(sc) \in DOMAIN r.specs[_safe_name(c)].subcommands
        /\ EntryExists(fs, <<c, sc>>)
        /\ load_meta(fs[<<c, sc>>].meta).status = "ok"

\* The files of the unit and the group descriptor are the skeleton's.
FilesAreSkeleton(c, sc) ==
    /\ fs[<<c, sc>>].entry = "command"
    /\ fs[<<c, sc>>].own = SkeletonOwn
    /\ fs[<<c, sc>>].meta.kind \in {"map", "unparsable"}
    /\ fs[<<c, sc>>].meta.kind = "map" => "packaged" \in DOMAIN fs[<<c, sc>>].meta.data
    /\ fs[<<c>>].meta.kind = "map" => "packaged" \in DOMAIN fs[<<c>>].meta.data

\* C29: after the scaffolder succeeds for a command C and a subcommand S in
\* a tree that discovery accepted, discovery succeeds and its result holds
\* the group C with a child S that has an entry.py and a valid descriptor;
\* the files are the new skeleton, also where --force found older ones.
C29_ScaffoldedUnitIsDiscovered ==
    ScaffoldedUnit =>
        /\ DiscoveryHoldsUnit(inv.req.command, inv.req.subcommand[1])
        /\ FilesAreSkeleton(inv.req.command, inv.req.subcommand[1])

\* What holds instead: the unit is discovered when both help texts were
\* given as plain YAML scalars and neither name looks like an artefact
\* directory; the files written are always the skeleton's.
ScaffoldedUnitIsDiscoveredWithPlainHelp ==
    ScaffoldedUnit =>
        /\ FilesAreSkeleton(inv.req.command, inv.req.subcommand[1])
        /\ (/\ inv.req.command_short_help # None
            /\ inv.req.subcommand_short_help # None \/ inv.req.short_help # None
            /\ ~IsArtefact(inv.req.command)
            /\ ~IsArtefact(inv.req.subcommand[1]))
           => DiscoveryHoldsUnit(inv.req.command, inv.req.subcommand[1])

----------------------------------------------------------------------------
(* Claims about disabled group descriptors (Spec) *)

\* The meta.yaml of the top-level directory states enabled: false.
StatesDisabled(d) ==
    /\ fs[d].meta.kind = "map"
    /\ "enabled" \in DOMAIN fs[d].meta.data
    /\ ~Truthy(fs[d].meta.data["enabled"])

\* C28: every top-level group whose meta.yaml states enabled: false, with
\* or without a help summary in that file, is discovered with enabled =
\* false and hidden = true; it is in no root listing and its entry.py is
\* never executed.
C28_DisabledGroupDescriptorHonoured ==
    root.status = "ready" =>
        \A g \in DOMAIN root.specs :
            StatesDisabled(<<root.specs[g].import_command>>) =>
                /\ ~Truthy(root.specs[g].enabled)
                /\ Truthy(root.specs[g].hidden)
                /\ (inv.out = "help" /\ inv.cmdline.path = << >>) =>
                       g \notin ListedNames(inv.rows)
                /\ \A q \in LoadedPaths : q[1] # g

\* What holds instead: the descriptor is honoured when it also gives a help
\* summary.
DisabledGroupDescriptorHonouredWithHelp ==
    root.status = "ready" =>
        \A g \in DOMAIN root.specs :
            (/\ StatesDisabled(<<root.specs[g].import_command>>)
             /\ HelpField(fs[<<root.specs[g].import_command>>].meta.data) # None) =>
                /\ ~Truthy(root.specs[g].enabled)
                /\ Truthy(root.specs[g].hidden)
                /\ (inv.out = "help" /\ inv.cmdline.path = << >>) =>
                       g \notin ListedNames(inv.rows)
                /\ \A q \in LoadedPaths : q[1] # g

----------------------------------------------------------------------------
(* Claims about the depth cap and sibling names (SpecDiscover) *)

\* C26: with max_depth = d the returned tree has at most d levels of
\* directories below the commands root, the group level included: no
\* discovered unit has an import path of more than d segments, and with
\* d = 0 no group is returned.
C26_AtMostDepthLevels ==
    \A r \in Results :
        /\ \A n \in UnitNodes(r.specs) : Len(n.import_path) <= r.max_depth
        /\ DOMAIN r.specs # {} => r.max_depth >= 1

\* C26 as the code has it: current_depth is 0 for the directories directly
\* below a group directory, so with max_depth = d a group has at most d
\* levels of units below it and an import path has at most d + 1 segments,
\* the group's name included; the group level itself is not capped.
C26_AtMostDepthLevelsBelowGroups ==
    \A r \in Results :
        \A n \in UnitNodes(r.specs) :
            /\ Len(n.import_path) - 2 < r.max_depth
            /\ Len(n.import_path) <= r.max_depth + 1

\* A direct call with a cap d >= 1 returned a unit at the last level the cap
\* lets in: its import path has d + 1 segments.
C26_Witness ==
    /\ pc = "discovered"
    /\ call.status = "return"
    /\ call.max_depth >= 1
    /\ \E n \in UnitNodes(call.specs) : Len(n.import_path) = call.max_depth + 1


\* The children mapping has one entry for each valid unit directory directly
\* below p, under the directory's hyphen-normalized name.
OneChildPerUnitDirectory(children, p, d) ==
    /\ Cardinality(DOMAIN children) = Cardinality(ValidChildren(fs, p, d))
    /\ \A c \in ValidChildren(fs, p, d) :
          /\ _safe_name(c) \in DOMAIN children
          /\ children[_safe_name(c)].import_path = Append(p, c)

\* C27: within every parent of a returned tree, each valid unit directory
\* has its own entry of the children mapping under its hyphen-normalized
\* name, so the mapping has as many entries as there are valid unit
\* directories and no unit replaces another.
C27_NoUnitReplacesAnother ==
    \A r \in Results :
        r.status = "return" =>
          /\ \A g \in DOMAIN r.specs :
                OneChildPerUnitDirectory(r.specs[g].subcommands,
                                         <<r.specs[g].import_command>>, r.max_depth)
          /\ \A n \in UnitNodes(r.specs) :
                OneChildPerUnitDirectory(SubcommandsOf(n), n.import_path, r.max_depth)

\* What holds instead: the same, for trees without sibling directories
\* whose names differ only by '_' versus '-'.
NoUnitReplacesAnotherUnlessNamesCollide ==
    \A r \in Results :
        (r.status = "return" /\ NoNameCollision(fs, r.max_depth)) =>
          /\ \A g \in DOMAIN r.specs :
                OneChildPerUnitDirectory(r.specs[g].subcommands,
                                         <<r.specs[g].import_command>>, r.max_depth)
          /\ \A n \in UnitNodes(r.specs) :
                OneChildPerUnitDirectory(SubcommandsOf(n), n.import_path, r.max_depth)

----------------------------------------------------------------------------
(* Claims about the packaging filter (SpecFilter) *)

\* The files of a tree: what each directory holds (the exported object
\* belongs to the entry file).
FilesOf(tree) ==
    [p \in DOMAIN tree |->
        [entry |-> tree[p].entry, meta |-> tree[p].meta,
         own |-> IF tree[p].entry = "none" THEN None ELSE Some(tree[p].own)]]

\* C23: prepare followed by restore leaves the commands tree exactly as it
\* was before prepare, the units that were never excluded and the
\* descriptors of partly excluded groups included, and no backup directory.
C23_RestoreUndoesPrepare ==
    pc = "restored" =>
        /\ FilesOf(fs) = FilesOf(inv.before)
        /\ build_excluded = << >>

\* What holds instead: the round trip when every excluded directory is a
\* whole top-level group.
RestoreUndoesPrepareOfWholeGroups ==
    (pc = "restored" /\ \A i \in DOMAIN inv.excluded : Len(inv.excluded[i]) = 1) =>
        /\ FilesOf(fs) = FilesOf(inv.before)
        /\ build_excluded = << >>

\* While the build runs nothing is lost: every directory is in the commands
\* tree or in the backup, with its files.
PrepareLosesNothing ==
    pc = "prepared" =>
        \A p \in DOMAIN inv.before :
            \/ (p \in DOMAIN fs /\ fs[p] = inv.before[p])
            \/ (p \in DOMAIN build_excluded /\ build_excluded[p] = inv.before[p])

----------------------------------------------------------------------------
(* Claims about entries that fail to load (SpecHelp) *)

\* The run ended with a RuntimeError raised for the entry.py of directory d.
FailedOnEntryOf(d) == inv.out = "RuntimeError" /\ inv.path = d

\* C25: an entry.py that fails to load or exports the wrong shape makes only
\* the invocations fail whose typed path goes through its unit; a dispatch
\* of a sibling, and --help at the parent level or at the root, do not end
\* with its error.
C25_BadEntryFailsOnlyItsOwnPath ==
    inv.kind \in {"dispatch", "help"} =>
        \A d \in DOMAIN fs :
            FailedOnEntryOf(d) => IsPrefix(SafePath(d), inv.cmdline.path)

\* What holds instead: the error of an entry.py ends the invocations that go
\* through its unit and those that print the listing of its parent.
BadEntryFailsItsPathAndParentListing ==
    inv.kind \in {"dispatch", "help"} =>
        \A d \in DOMAIN fs :
            FailedOnEntryOf(d) =>
                \/ IsPrefix(SafePath(d), inv.cmdline.path)
                \/ SafePath(SubSeq(d, 1, Len(d) - 1)) = inv.cmdline.path

----------------------------------------------------------------------------
(* Claims about repeated addresses of a node (SpecSession, Spec) *)

\* No entry.py occurs twice in a sequence of executions.
LoadedOnce(loads) ==
    \A i, j \in DOMAIN loads : loads[i] = loads[j] => i = j

\* C24: within one process the entry.py of a path is executed at most once,
\* however many times the node is addressed: a second dispatch through the
\* same RootCommand, or a dispatch after a help listing, does not execute
\* it again.
C24_EntryLoadedAtMostOnce == LoadedOnce(loaded)

\* What holds instead: within one invocation no entry.py is executed twice.
EntryLoadedAtMostOncePerInvocation ==
    inv.kind \in {"dispatch", "help"} => LoadedOnce(inv.loads)

============================================================================
